---- MODULE Spec2Model ----
(***************************************************************************)
(* Tide-prediction reconciliation of wavewatch                             *)
(* (src/src/wavewatch/api/data_fetcher.py): the station resolver           *)
(* _get_station_metadata with its process-lifetime cache, and the tide     *)
(* reconciler _get_noaa_tide_data.                                         *)
(*                                                                         *)
(* One call is modelled as the sequence of its blocking outbound requests: *)
(* an action starts the call and runs it up to its first request, and one  *)
(* action per kind of response runs the code from that response to the     *)
(* next request or to the return.                                          *)
(*                                                                         *)
(* Number representation.  Python floats are modelled as exact rationals:  *)
(*   - a height in meters is an integer number of centimeters (v = cm/100),*)
(*   - a height factor is an integer number of tenths (1.0 is 10),         *)
(*   - a result in feet, after round(x, 2), is an integer number of        *)
(*     hundredths of a foot.                                               *)
(* round(x, 2) rounds to nearest, ties to even, on the exact product.      *)
(***************************************************************************)
EXTENDS Integers, Sequences, FiniteSets, TLC

\* ---------------------------------------------------------------- bounds
MaxPreds == 2      \* longest prediction list the predictions service returns
MaxObjects == 3    \* cap on the metadata dicts allocated in one run

\* ------------------------------------------------------- python helpers
None == "None"                 \* Python None where a string is expected
NoDict == [none |-> TRUE]      \* Python None where a dict is expected

\* d.get(k, default)
Get(d, k, default) == IF k \in DOMAIN d THEN d[k] ELSE default

\* truth value of an optional string
Truthy(s) == s \notin {None, ""}

\* str.lower() and str.upper() on the strings that occur
lower(s) ==
  CASE s = "Malibu" -> "malibu"
    [] s = "PLEASURE POINT" -> "pleasure point"
    [] s = "MALIBU" -> "malibu"
    [] OTHER -> s

upper(s) ==
  CASE s = "h" -> "H"
    [] s = "l" -> "L"
    [] OTHER -> s

\* ------------------------------------------------------ program constants
\* self.tide_stations, restricted to two of its entries
tide_stations == ("pleasure point" :> "9413745") @@ ("malibu" :> "9410660")

StationIds == {tide_stations[b] : b \in DOMAIN tide_stations}

FeetPerMeterNum == 328084      \* 3.28084 = 328084 / 100000
DefaultTimeOffset == 0         \* .get('time_high', 0), .get('time_low', 0)
DefaultHeightFactor == 10      \* .get('height_high', 1.0): 1.0 in tenths

\* ------------------------------------------------------ calendar and text
\* A datetime is [y, mo, d, hh, mi, ss].  The calendar is January and
\* February 2025.
DateTime(y, mo, d, hh, mi, ss) ==
  [y |-> y, mo |-> mo, d |-> d, hh |-> hh, mi |-> mi, ss |-> ss]

NoTime == [invalid |-> TRUE]   \* strptime raised ValueError

\* datetime.strptime(s, '%Y-%m-%d')
strptime_date(s) ==
  CASE s = "2025-01-31" -> DateTime(2025, 1, 31, 0, 0, 0)
    [] s = "2025-02-01" -> DateTime(2025, 2, 1, 0, 0, 0)
    [] OTHER -> NoTime

\* datetime.strptime(s, '%Y-%m-%d %H:%M')
strptime_HM(s) ==
  CASE s = "2025-01-31 23:30" -> DateTime(2025, 1, 31, 23, 30, 0)
    [] s = "2025-01-31 06:05" -> DateTime(2025, 1, 31, 6, 5, 0)
    [] s = "2025-01-31 06:30" -> DateTime(2025, 1, 31, 6, 30, 0)
    [] s = "2025-01-31 12:00" -> DateTime(2025, 1, 31, 12, 0, 0)
    [] OTHER -> NoTime

\* datetime.strptime(s, '%Y-%m-%d %H:%M:%S')
strptime_HMS(s) ==
  CASE s = "2025-01-31 00:10:30" -> DateTime(2025, 1, 31, 0, 10, 30)
    [] OTHER -> NoTime

Pad2(n) == IF n < 10 THEN "0" \o ToString(n) ELSE ToString(n)

\* dt.strftime('%Y%m%d')
strftime_compact(dt) == ToString(dt.y) \o Pad2(dt.mo) \o Pad2(dt.d)

\* dt.strftime('%Y-%m-%dT%H:%M:%S+00:00')
strftime_iso(dt) ==
  ToString(dt.y) \o "-" \o Pad2(dt.mo) \o "-" \o Pad2(dt.d) \o "T" \o
  Pad2(dt.hh) \o ":" \o Pad2(dt.mi) \o ":" \o Pad2(dt.ss) \o "+00:00"

\* day of the year 2025 of a date in January or February, and back
DayOfYear(mo, d) == IF mo = 1 THEN d ELSE 31 + d
MonthOf(doy) == IF doy <= 31 THEN 1 ELSE 2
DayOf(doy) == IF doy <= 31 THEN doy ELSE doy - 31

\* dt + timedelta(minutes=m)
add_minutes(dt, m) ==
  LET total == ((DayOfYear(dt.mo, dt.d) * 24 + dt.hh) * 60) + dt.mi + m
      doy == total \div 1440
      rest == total % 1440
  IN DateTime(dt.y, MonthOf(doy), DayOf(doy), rest \div 60, rest % 60, dt.ss)

\* float(s) of a height in meters: is_float(s) is FALSE where float(s)
\* raises ValueError, float_cm(s) is the value in centimeters
is_float(s) == s \in {"1.23", "-0.12", "2.50"}

float_cm(s) ==
  CASE s = "1.23" -> 123
    [] s = "-0.12" -> -12
    [] s = "2.50" -> 250
    [] OTHER -> 0

\* a float as the exact rational num / den
Rational(n, d) == [num |-> n, den |-> d]

\* tide_value_m * 3.28084
to_feet(cm) == Rational(cm * FeetPerMeterNum, 10000000)

\* x * factor, the factor in tenths
times_factor(x, f) == Rational(x.num * f, x.den * 10)

\* round half to even of the rational n / d, d > 0
RoundHalfEven(n, d) ==
  LET q == n \div d
      r == n % d
  IN CASE 2 * r < d -> q
       [] 2 * r > d -> q + 1
       [] OTHER -> IF q % 2 = 0 THEN q ELSE q + 1

\* round(x, 2), in hundredths
round2(x) == RoundHalfEven(x.num, x.den \div 100)

\* ---------------------------------------------------------------- inputs
\* beach names a caller passes: names of the table in several letter
\* cases, part of a name of the table, and a name it does not have
BeachNames == {"pleasure point", "Malibu", "MALIBU", "pleasure", "atlantis"}

\* target_date values a caller passes: a string, a datetime, or None
TargetDates ==
  { [kind |-> "str", text |-> "2025-01-31"],
    [kind |-> "str", text |-> "31/01/2025"],
    [kind |-> "str", text |-> ""],
    [kind |-> "datetime", dt |-> DateTime(2025, 2, 1, 14, 30, 0)],
    [kind |-> "None"] }

\* the arguments of the calls of _get_noaa_tide_data: every target date
\* for one beach of the table, and the two date strings for every beach name
TideCalls ==
  { [beach_name |-> "pleasure point", target_date |-> d] : d \in TargetDates }
  \cup
  { [beach_name |-> b, target_date |-> [kind |-> "str", text |-> t]] :
      b \in BeachNames, t \in {"2025-01-31", "31/01/2025"} }

\* datetime.now()
Clock == {DateTime(2025, 1, 31, 9, 15, 0)}

\* link to the offsets resource in a station record
OffsetsUrl(s) == "stations/" \o s \o "/tidepredoffsets.json"

\* the stations the metadata service knows as harmonic reference stations
\* (9410660 is Los Angeles)
ReferenceStations == {"9410660"}

\* the records the metadata service may hold for station s,
\* data['stations'][0]: reference_id and the offsets link are optional,
\* and so is the type, "" standing for a record without one (line 179
\* reads it with the default ''); a reference station is not of type "S",
\* and the reference of a type "S" record is a reference station
StationInfos(s) ==
  IF s \in ReferenceStations
  THEN { [type |-> "R", reference_id |-> None, tidepredoffsets_self |-> None],
         [type |-> "", reference_id |-> s, tidepredoffsets_self |-> OffsetsUrl(s)] }
  ELSE { [type |-> "R", reference_id |-> None, tidepredoffsets_self |-> None] }
       \cup
       [ type : {"S"},
         reference_id : {None} \cup ReferenceStations,
         tidepredoffsets_self : {None, OffsetsUrl(s)} ]

\* answers to the metadata request: an exception (exc is its message), or
\* a status code and the 'stations' list of the body
MetadataResponses(s) ==
  { [exc |-> "ConnectTimeout", status_code |-> 0, stations |-> <<>>],
    [exc |-> None, status_code |-> 500, stations |-> <<>>],
    [exc |-> None, status_code |-> 200, stations |-> <<>>] }
  \cup
  { [exc |-> None, status_code |-> 200, stations |-> <<i>>] : i \in StationInfos(s) }

\* bodies of the offsets resource; a key may be missing
OffsetsBodies ==
  { [timeOffsetHighTide |-> 45, timeOffsetLowTide |-> -30,
     heightOffsetHighTide |-> 15, heightOffsetLowTide |-> 9],
    [timeOffsetHighTide |-> 45] }

\* answers to the offsets request
OffsetsResponses ==
  { [exc |-> "ReadTimeout", status_code |-> 0, body |-> NoDict],
    [exc |-> None, status_code |-> 404, body |-> NoDict] }
  \cup
  { [exc |-> None, status_code |-> 200, body |-> b] : b \in OffsetsBodies }

\* entries of the 'predictions' list: t, v and type; type may be missing
RawPoints ==
  { [t |-> "2025-01-31 23:30", v |-> "1.23", type |-> "H"],
    [t |-> "2025-01-31 00:10:30", v |-> "-0.12", type |-> "L"],
    [t |-> "2025-01-31 06:05", v |-> "2.50", type |-> "h"],
    [t |-> "2025-01-31 06:30", v |-> "1.23"],
    [t |-> "31 Jan 2025 12:00", v |-> "1.23", type |-> "L"],
    [t |-> "2025-01-31 12:00", v |-> "n/a", type |-> "H"] }

PredictionLists ==
  UNION { [1..n -> RawPoints] : n \in 0..MaxPreds }

\* answers to the predictions request
PredictionsResponses ==
  { [exc |-> "ConnectionError", status_code |-> 0, predictions |-> <<>>],
    [exc |-> None, status_code |-> 503, predictions |-> <<>>] }
  \cup
  { [exc |-> None, status_code |-> 200, predictions |-> l] : l \in PredictionLists }

\* ------------------------------------------------------------------ state
VARIABLES
  station_metadata_cache,   \* self._station_metadata_cache: station id -> dict
  next_oid,                 \* identity of the next dict allocated
  returned,                 \* history: station id -> first dict resolve returned
  pc,                       \* "idle", or the request the call is blocked in
  call,                     \* the call in progress, or the last one made
  extractor,                \* the call of parse_best_times_from_analysis
  request,                  \* the request GET /api/surf/{beach_name}/{date}
  threads,                  \* concurrent calls of _get_station_metadata
  fetch                     \* the file cache and the call of fetch_surf_data

vars ==
  <<station_metadata_cache, next_oid, returned, pc, call, extractor, request,
    threads, fetch>>

\* the variables of the tide reconciler, and those of the other components
tide_vars == <<station_metadata_cache, next_oid, returned, pc, call>>
other_vars == <<extractor, request, threads, fetch>>

\* requests.get(...), as logged in call.requests
MetadataRequest(s) == [service |-> "metadata", station |-> s]
OffsetsRequest(url) == [service |-> "offsets", url |-> url]
PredictionsRequest(s, date_str) ==
  [service |-> "predictions", station |-> s,
   begin_date |-> date_str, end_date |-> date_str]

\* the frame of a call at its entry
NewCall(op, beach, td, s) ==
  [ op |-> op, beach_name |-> beach, target_date |-> td, station_id |-> s,
    date_str |-> None,
    prior |-> Get(returned, s, NoDict),   \* history: returned[s] at entry
    metadata |-> NoDict,                  \* the dict under construction
    resolved |-> FALSE,                   \* _get_station_metadata returned
    station_metadata |-> NoDict,          \* what it returned
    branch |-> "none",                    \* "subordinate" or "harmonic"
    reference_station_id |-> None,
    offsets |-> NoDict,                   \* time_high .. height_low in use
    requests |-> <<>>,
    predictions_list |-> <<>>,            \* history: the list a 200 answer had
    answer |-> NoDict,                    \* history: exception or status answered
    result |-> NoDict ]

Init ==
  /\ station_metadata_cache = <<>>
  /\ next_oid = 1
  /\ returned = <<>>
  /\ pc = "idle"
  /\ call = NewCall("none", None, [kind |-> "None"], None)
  /\ extractor = NoDict
  /\ request = NoDict
  /\ threads = NoDict
  /\ fetch = NoDict

\* ------------------------------------------------- _get_noaa_tide_data
\* variant: a dict with a reference_id is subordinate whatever its type
is_subordinate_any_type(m) ==
  /\ m # NoDict
  /\ Truthy(m.reference_id)

\* line 245: the test that selects the subordinate branch
is_subordinate(m) ==
  /\ m # NoDict
  /\ m.type = "S"
  /\ Truthy(m.reference_id)

\* variant: missing height factors default to 0 like the time offsets
extract_offsets_zero_default(m) ==
  LET offsets == Get(m, "tidepredoffsets", <<>>)
  IN [ time_high |-> Get(offsets, "time_high", DefaultTimeOffset),
       time_low |-> Get(offsets, "time_low", DefaultTimeOffset),
       height_high |-> Get(offsets, "height_high", DefaultTimeOffset),
       height_low |-> Get(offsets, "height_low", DefaultTimeOffset) ]

\* lines 248-255: the offsets in use, with the defaults for missing values
extract_offsets(m) ==
  LET offsets == Get(m, "tidepredoffsets", <<>>)
  IN [ time_high |-> Get(offsets, "time_high", DefaultTimeOffset),
       time_low |-> Get(offsets, "time_low", DefaultTimeOffset),
       height_high |-> Get(offsets, "height_high", DefaultHeightFactor),
       height_low |-> Get(offsets, "height_low", DefaultHeightFactor) ]

\* lines 284-288 and 352-355: '%Y-%m-%d %H:%M', then '%Y-%m-%d %H:%M:%S'
parse_time(t) ==
  IF strptime_HM(t) # NoTime THEN strptime_HM(t) ELSE strptime_HMS(t)

\* the exception a prediction raises while it is converted, or None
point_error(pred) ==
  IF ~is_float(pred.v) THEN "could not convert string to float"
  ELSE IF parse_time(pred.t) = NoTime THEN "time data does not match format"
  ELSE None

\* variant: the type is compared as it was received
read_point_type_as_received(pred) ==
  [ tide_type |-> Get(pred, "type", ""),
    tide_value_ft |-> to_feet(float_cm(pred.v)),
    tide_time |-> parse_time(pred.t) ]

\* lines 278-288: the values read from one prediction
read_point(pred) ==
  [ tide_type |-> upper(Get(pred, "type", "")),
    tide_value_ft |-> to_feet(float_cm(pred.v)),
    tide_time |-> parse_time(pred.t) ]

\* variant: the height in feet is rounded before the factor is applied
apply_height_offset_rounded_first(p, o) ==
  [p EXCEPT !.tide_value_ft =
     Rational(round2(@) * (IF p.tide_type = "H" THEN o.height_high ELSE o.height_low),
              1000)]

\* lines 290-296: the height offset of the point's tide type
apply_height_offset(p, o) ==
  [p EXCEPT !.tide_value_ft =
     times_factor(@, IF p.tide_type = "H" THEN o.height_high ELSE o.height_low)]

\* lines 293, 296, 299: the time offset of the point's tide type
apply_time_offset(p, o) ==
  [p EXCEPT !.tide_time =
     add_minutes(@, IF p.tide_type = "H" THEN o.time_high ELSE o.time_low)]

\* lines 309-313 and 357-360: the entry of tide_conditions
format_point(p) ==
  [ time |-> strftime_iso(p.tide_time), tide |-> round2(p.tide_value_ft) ]

\* variant: the time offset of a point is taken from the high-tide offset
\* whatever the tide type
subordinate_point_high_offset(pred, o) ==
  LET p == apply_height_offset(read_point(pred), o)
  IN format_point([p EXCEPT !.tide_time = add_minutes(@, o.time_high)])

\* lines 277-313: one prediction in the subordinate branch
subordinate_point(pred, o) ==
  format_point(apply_time_offset(apply_height_offset(read_point(pred), o), o))

\* variant: the height is truncated to 2 decimals instead of rounded
harmonic_point_truncated(pred) ==
  LET p == read_point(pred)
  IN [ time |-> strftime_iso(p.tide_time),
       tide |-> p.tide_value_ft.num \div (p.tide_value_ft.den \div 100) ]

\* lines 346-360: one prediction in the harmonic branch
harmonic_point(pred) == format_point(read_point(pred))

\* index of the first prediction that raises, 0 if none does
first_error(list) ==
  LET bad == {i \in 1..Len(list) : point_error(list[i]) # None}
  IN IF bad = {} THEN 0 ELSE CHOOSE i \in bad : \A j \in bad : i <= j

\* variant: an empty prediction list is not tested for
subordinate_result_no_empty_test(c, resp) ==
  LET ref == c.reference_station_id
      list == resp.predictions
  IN IF resp.exc # None
     THEN [error |-> "Error fetching predictions from reference station: " \o resp.exc]
     ELSE IF resp.status_code # 200
     THEN [error |-> "Failed to fetch predictions from reference station " \o ref
                     \o ": HTTP " \o ToString(resp.status_code)]
     ELSE IF first_error(list) # 0
     THEN [error |-> "Error fetching predictions from reference station: "
                     \o point_error(list[first_error(list)])]
     ELSE [ tide_conditions |->
              [i \in 1..Len(list) |-> subordinate_point(list[i], c.offsets)],
            station_id |-> c.station_id,
            reference_station_id |-> ref,
            station_name |-> "Station " \o c.station_id
                             \o " (subordinate, ref: " \o ref \o ")" ]

\* lines 266-324: the subordinate branch from the answer to the return
subordinate_result(c, resp) ==
  LET ref == c.reference_station_id
      list == resp.predictions
  IN IF resp.exc # None
     THEN [error |-> "Error fetching predictions from reference station: " \o resp.exc]
     ELSE IF resp.status_code # 200
     THEN [error |-> "Failed to fetch predictions from reference station " \o ref
                     \o ": HTTP " \o ToString(resp.status_code)]
     ELSE IF Len(list) = 0
     THEN [error |-> "No tide predictions available from reference station " \o ref]
     ELSE IF first_error(list) # 0
     THEN [error |-> "Error fetching predictions from reference station: "
                     \o point_error(list[first_error(list)])]
     ELSE [ tide_conditions |->
              [i \in 1..Len(list) |-> subordinate_point(list[i], c.offsets)],
            station_id |-> c.station_id,
            reference_station_id |-> ref,
            station_name |-> "Station " \o c.station_id
                             \o " (subordinate, ref: " \o ref \o ")" ]

\* variant: the harmonic branch does not test for an empty prediction list
harmonic_result_no_empty_test(c, resp) ==
  LET list == resp.predictions
  IN IF resp.exc # None
     THEN [error |-> "Error fetching predictions: " \o resp.exc]
     ELSE IF resp.status_code # 200
     THEN [error |-> "Failed to fetch predictions for station " \o c.station_id
                     \o ": HTTP " \o ToString(resp.status_code)]
     ELSE IF first_error(list) # 0
     THEN [error |-> "Error fetching predictions: "
                     \o point_error(list[first_error(list)])]
     ELSE [ tide_conditions |->
              [i \in 1..Len(list) |-> harmonic_point(list[i])],
            station_id |-> c.station_id,
            station_name |-> "Station " \o c.station_id ]

\* lines 335-370: the harmonic branch from the answer to the return
harmonic_result(c, resp) ==
  LET list == resp.predictions
  IN IF resp.exc # None
     THEN [error |-> "Error fetching predictions: " \o resp.exc]
     ELSE IF resp.status_code # 200
     THEN [error |-> "Failed to fetch predictions for station " \o c.station_id
                     \o ": HTTP " \o ToString(resp.status_code)]
     ELSE IF Len(list) = 0
     THEN [error |-> "No tide predictions available for station " \o c.station_id]
     ELSE IF first_error(list) # 0
     THEN [error |-> "Error fetching predictions: "
                     \o point_error(list[first_error(list)])]
     ELSE [ tide_conditions |->
              [i \in 1..Len(list) |-> harmonic_point(list[i])],
            station_id |-> c.station_id,
            station_name |-> "Station " \o c.station_id ]

\* variant: the subordinate branch asks for the predictions of the beach's
\* own station
request_predictions_own_station(c) ==
  LET m == c.station_metadata
  IN IF is_subordinate(m)
     THEN [c EXCEPT !.branch = "subordinate",
                    !.reference_station_id = m.reference_id,
                    !.offsets = extract_offsets(m),
                    !.requests = Append(@, PredictionsRequest(c.station_id, c.date_str))]
     ELSE [c EXCEPT !.branch = "harmonic",
                    !.requests = Append(@, PredictionsRequest(c.station_id, c.date_str))]

\* variant: the subordinate branch asks the reference station and, again,
\* the beach's own station
request_predictions_both_stations(c) ==
  LET m == c.station_metadata
  IN IF is_subordinate(m)
     THEN [c EXCEPT !.branch = "subordinate",
                    !.reference_station_id = m.reference_id,
                    !.offsets = extract_offsets(m),
                    !.requests = @ \o <<PredictionsRequest(m.reference_id, c.date_str),
                                        PredictionsRequest(c.station_id, c.date_str)>>]
     ELSE [c EXCEPT !.branch = "harmonic",
                    !.requests = Append(@, PredictionsRequest(c.station_id, c.date_str))]

\* lines 245-264 and 325-333: the code from the return of
\* _get_station_metadata to the predictions request
request_predictions(c) ==
  LET m == c.station_metadata
  IN IF is_subordinate(m)
     THEN [c EXCEPT !.branch = "subordinate",
                    !.reference_station_id = m.reference_id,
                    !.offsets = extract_offsets(m),
                    !.requests = Append(@, PredictionsRequest(m.reference_id, c.date_str))]
     ELSE [c EXCEPT !.branch = "harmonic",
                    !.requests = Append(@, PredictionsRequest(c.station_id, c.date_str))]

\* variant: the table is searched for the name as given
station_for_case_sensitive(beach_name) == Get(tide_stations, beach_name, None)

\* line 222: self.tide_stations.get(beach_name.lower())
station_for(beach_name) == Get(tide_stations, lower(beach_name), None)

\* variant: the outer handler lets the exception through
outer_except_reraise(exc) == [raised |-> exc]

\* lines 220 and 372-374: the handler of the try block around the whole
\* body (the traceback that follows the message is left out)
outer_except(exc) == [error |-> "Error fetching NOAA tide data: " \o exc]

\* variant: a string that is not a date stands for the current day
parse_target_date_lenient(td, now) ==
  CASE td.kind = "None" -> now
    [] td.kind = "str" ->
         IF td.text = "" \/ strptime_date(td.text) = NoTime
         THEN now ELSE strptime_date(td.text)
    [] td.kind = "datetime" -> td.dt

\* lines 226-239: target_date to a datetime; NoTime if strptime raises.
\* Line 227 tests the truth value of target_date, so the empty string is
\* treated like None.
parse_target_date(td, now) ==
  CASE td.kind = "None" -> now
    [] td.kind = "str" -> IF td.text = "" THEN now ELSE strptime_date(td.text)
    [] td.kind = "datetime" -> td.dt

\* ------------------------------------------------- _get_station_metadata
\* lines 178-182: the dict built from data['stations'][0]
new_metadata(station_info, oid) ==
  [ oid |-> oid,
    type |-> station_info.type,
    reference_id |-> station_info.reference_id,
    tidepredoffsets_url |-> station_info.tidepredoffsets_self ]

\* lines 188-195: the dict after the answer to the offsets request
with_offsets(metadata, resp) ==
  IF resp.exc = None /\ resp.status_code = 200
  THEN metadata @@
       [ tidepredoffsets |->
           [ time_high |-> Get(resp.body, "timeOffsetHighTide", DefaultTimeOffset),
             time_low |-> Get(resp.body, "timeOffsetLowTide", DefaultTimeOffset),
             height_high |-> Get(resp.body, "heightOffsetHighTide", DefaultHeightFactor),
             height_low |-> Get(resp.body, "heightOffsetLowTide", DefaultHeightFactor) ] ]
  ELSE metadata

\* variant: the cache is never consulted
cache_hit_never(cache, station_id) == FALSE

\* line 165: the cache test
cache_hit(cache, station_id) == station_id \in DOMAIN cache

\* variant: the dict is returned without being stored
cache_store_nothing(cache, station_id, metadata) == cache

\* line 200: self._station_metadata_cache[station_id] = metadata
cache_store(cache, station_id, metadata) ==
  [k \in DOMAIN cache \cup {station_id} |->
     IF k = station_id THEN metadata ELSE cache[k]]

\* variant: a failed lookup is memoized as None
cache_after_failure_memoized(cache, station_id) ==
  [k \in DOMAIN cache \cup {station_id} |->
     IF k = station_id THEN NoDict ELSE cache[k]]

\* lines 202-205: what the cache holds after a failed lookup
cache_after_failure(cache, station_id) == cache

\* the return of _get_station_metadata with value m, and the caller's code
\* up to its next request
Return(c, m) ==
  LET c1 == [c EXCEPT !.resolved = TRUE, !.station_metadata = m, !.metadata = NoDict]
  IN /\ returned' = IF m # NoDict /\ c.station_id \notin DOMAIN returned
                    THEN cache_store(returned, c.station_id, m)
                    ELSE returned
     /\ IF c.op = "resolve"
        THEN call' = c1 /\ pc' = "idle"
        ELSE call' = request_predictions(c1) /\ pc' = "predictions"

\* lines 164-171: entry of _get_station_metadata
Enter(c) ==
  IF cache_hit(station_metadata_cache, c.station_id)
  THEN /\ Return(c, station_metadata_cache[c.station_id])
       /\ UNCHANGED <<station_metadata_cache, next_oid>>
  ELSE /\ call' = [c EXCEPT !.requests = Append(@, MetadataRequest(c.station_id))]
       /\ pc' = "metadata"
       /\ UNCHANGED <<station_metadata_cache, next_oid, returned>>

\* a direct call of _get_station_metadata(station_id)
Resolve ==
  /\ pc = "idle"
  /\ \E s \in StationIds : Enter(NewCall("resolve", None, [kind |-> "None"], s))
  /\ UNCHANGED other_vars

\* lines 173-185 and 199-205: the answer to the metadata request
MetadataResponse ==
  /\ pc = "metadata"
  /\ UNCHANGED other_vars
  /\ \E resp \in MetadataResponses(call.station_id) :
       IF resp.exc # None \/ resp.status_code # 200 \/ Len(resp.stations) = 0
       THEN /\ station_metadata_cache' =
                 cache_after_failure(station_metadata_cache, call.station_id)
            /\ Return(call, NoDict)
            /\ UNCHANGED next_oid
       ELSE LET metadata == new_metadata(resp.stations[1], next_oid)
            IN /\ next_oid <= MaxObjects
               /\ next_oid' = next_oid + 1
               /\ IF metadata.type = "S" /\ Truthy(metadata.tidepredoffsets_url)
                  THEN /\ call' = [call EXCEPT
                              !.metadata = metadata,
                              !.requests = Append(@, OffsetsRequest(metadata.tidepredoffsets_url))]
                       /\ pc' = "offsets"
                       /\ UNCHANGED <<station_metadata_cache, returned>>
                  ELSE /\ station_metadata_cache' =
                            cache_store(station_metadata_cache, call.station_id, metadata)
                       /\ Return(call, metadata)

\* lines 186-201: the answer to the offsets request
OffsetsResponse ==
  /\ pc = "offsets"
  /\ UNCHANGED other_vars
  /\ \E resp \in OffsetsResponses :
       LET metadata == with_offsets(call.metadata, resp)
       IN /\ station_metadata_cache' =
               cache_store(station_metadata_cache, call.station_id, metadata)
          /\ Return(call, metadata)
          /\ UNCHANGED next_oid

\* lines 220-242: _get_noaa_tide_data(beach_name, target_date) up to its
\* first request, or to its return when there is none
GetNoaaTideData ==
  /\ pc = "idle"
  /\ UNCHANGED other_vars
  /\ \E args \in TideCalls, now \in Clock :
       LET beach_name == args.beach_name
           target_date == args.target_date
           station_id == station_for(beach_name)
           c == NewCall("tide", beach_name, target_date, station_id)
           date_obj == parse_target_date(target_date, now)
       IN IF ~Truthy(station_id)
          THEN /\ call' = [c EXCEPT !.result =
                              [error |-> "No tide station found for " \o beach_name]]
               /\ UNCHANGED <<station_metadata_cache, next_oid, returned, pc>>
          ELSE IF date_obj = NoTime
          THEN /\ call' = [c EXCEPT !.result =
                              outer_except("time data does not match format")]
               /\ UNCHANGED <<station_metadata_cache, next_oid, returned, pc>>
          ELSE Enter([c EXCEPT !.date_str = strftime_compact(date_obj)])

\* lines 268-324 and 337-370: the answer to the predictions request
PredictionsResponse ==
  /\ pc = "predictions"
  /\ UNCHANGED other_vars
  /\ \E resp \in PredictionsResponses :
       /\ call' = [call EXCEPT
              !.answer = [exc |-> resp.exc, status_code |-> resp.status_code],
              !.predictions_list =
                 IF resp.exc = None /\ resp.status_code = 200
                 THEN <<resp.predictions>> ELSE <<>>,
              !.result = IF call.branch = "subordinate"
                         THEN subordinate_result(call, resp)
                         ELSE harmonic_result(call, resp)]
       /\ pc' = "idle"
       /\ UNCHANGED <<station_metadata_cache, next_oid, returned>>

Next ==
  \/ Resolve
  \/ GetNoaaTideData
  \/ MetadataResponse
  \/ OffsetsResponse
  \/ PredictionsResponse

Spec == Init /\ [][Next]_vars

\* ================================================================ claims

\* the requests of the call in progress that go to the metadata service
ResolverRequests ==
  {i \in 1..Len(call.requests) : call.requests[i].service \in {"metadata", "offsets"}}

\* C1: once _get_station_metadata has returned a dict for a station id,
\* every later call for that id returns the identical dict (same object)
\* and issues neither the metadata request nor the offsets request.
C1_MemoizedIdentity ==
  (call.resolved /\ call.prior # NoDict) =>
    /\ call.station_metadata = call.prior
    /\ ResolverRequests = {}

\* C1 witness: the first station resolved is resolved again after the other
\* station has been resolved and cached in between.
C1_Witness ==
  /\ call.resolved
  /\ call.prior # NoDict
  /\ call.prior.oid = 1
  /\ next_oid = 3
  /\ call.station_metadata.oid = 1

\* the data-model invariant of a StationMetadata dict
WellFormedMetadata(m) ==
  IF m.type = "S"
  THEN Truthy(m.reference_id) /\ "tidepredoffsets" \in DOMAIN m
  ELSE ~Truthy(m.reference_id) /\ "tidepredoffsets" \notin DOMAIN m

\* C4: every dict returned by _get_station_metadata or held in the cache
\* has, when its type is "S", both a reference_id and an offsets record,
\* and has neither otherwise.
C4_DataModelInvariant ==
  /\ \A s \in DOMAIN station_metadata_cache :
       WellFormedMetadata(station_metadata_cache[s])
  /\ (call.resolved /\ call.station_metadata # NoDict) =>
       WellFormedMetadata(call.station_metadata)

\* C5: a station id is a key of the cache exactly when some call of
\* _get_station_metadata for it returned a dict; a call that returns None
\* leaves the cache as it was; a call for an id that is not cached sends
\* the metadata request.
C5_KeysAreResolved == DOMAIN station_metadata_cache = DOMAIN returned

C5_MissQueries ==
  (call.op # "none" /\ (call.resolved \/ pc = "metadata") /\ call.prior = NoDict) =>
    /\ Len(call.requests) >= 1
    /\ call.requests[1] = MetadataRequest(call.station_id)

C5_FailureKeepsCache ==
  (call'.resolved /\ call'.station_metadata = NoDict) =>
    station_metadata_cache' = station_metadata_cache

C5_CacheExactlyResolved ==
  /\ [](C5_KeysAreResolved /\ C5_MissQueries)
  /\ [][C5_FailureKeepsCache]_vars

\* C5 witness: a lookup that sent the metadata request has just failed for
\* one station, which is not cached, while the cache holds a type "S"
\* record of the other station whose offsets request failed.
C5_Witness ==
  /\ call.resolved
  /\ call.station_metadata = NoDict
  /\ call.station_id \notin DOMAIN station_metadata_cache
  /\ Len(call.requests) >= 1
  /\ \E s \in DOMAIN station_metadata_cache :
       /\ station_metadata_cache[s].type = "S"
       /\ Truthy(station_metadata_cache[s].tidepredoffsets_url)
       /\ "tidepredoffsets" \notin DOMAIN station_metadata_cache[s]

\* ------------------------------------------- reference values of claims
\* the ISO-8601 text of a prediction time moved by a number of minutes
ExpectedTime(t, minutes) ==
  CASE t = "2025-01-31 23:30" /\ minutes = 0 -> "2025-01-31T23:30:00+00:00"
    [] t = "2025-01-31 23:30" /\ minutes = 45 -> "2025-02-01T00:15:00+00:00"
    [] t = "2025-01-31 23:30" /\ minutes = -30 -> "2025-01-31T23:00:00+00:00"
    [] t = "2025-01-31 00:10:30" /\ minutes = 0 -> "2025-01-31T00:10:30+00:00"
    [] t = "2025-01-31 00:10:30" /\ minutes = 45 -> "2025-01-31T00:55:30+00:00"
    [] t = "2025-01-31 00:10:30" /\ minutes = -30 -> "2025-01-30T23:40:30+00:00"
    [] t = "2025-01-31 06:05" /\ minutes = 0 -> "2025-01-31T06:05:00+00:00"
    [] t = "2025-01-31 06:05" /\ minutes = 45 -> "2025-01-31T06:50:00+00:00"
    [] t = "2025-01-31 06:05" /\ minutes = -30 -> "2025-01-31T05:35:00+00:00"
    [] t = "2025-01-31 06:30" /\ minutes = 0 -> "2025-01-31T06:30:00+00:00"
    [] t = "2025-01-31 06:30" /\ minutes = 45 -> "2025-01-31T07:15:00+00:00"
    [] t = "2025-01-31 06:30" /\ minutes = -30 -> "2025-01-31T06:00:00+00:00"
    [] t = "2025-01-31 12:00" /\ minutes = 0 -> "2025-01-31T12:00:00+00:00"
    [] t = "2025-01-31 12:00" /\ minutes = 45 -> "2025-01-31T12:45:00+00:00"
    [] t = "2025-01-31 12:00" /\ minutes = -30 -> "2025-01-31T11:30:00+00:00"
    [] OTHER -> "?"

\* the meters of a well-formed height text, in centimeters
Centimeters == ("1.23" :> 123) @@ ("-0.12" :> -12) @@ ("2.50" :> 250)

WellFormedTimes ==
  {"2025-01-31 23:30", "2025-01-31 00:10:30", "2025-01-31 06:05", "2025-01-31 06:30",
   "2025-01-31 12:00"}

WellFormedPoint(pred) ==
  pred.v \in DOMAIN Centimeters /\ pred.t \in WellFormedTimes

WellFormedList(list) ==
  \A i \in 1..Len(list) : WellFormedPoint(list[i])

\* meters * 3.28084 * factor to the nearest hundredth of a foot: the integer
\* q with |cm * 328084 * tenths / 10^6 - q| < 1/2
ExpectedFeet(cm, tenths) ==
  LET floor == (cm * 328084 * tenths) \div 1000000
  IN CHOOSE q \in {floor, floor + 1} :
       /\ q * 1000000 - 500000 < cm * 328084 * tenths
       /\ cm * 328084 * tenths < q * 1000000 + 500000

\* a prediction is a high tide
IsHigh(pred) == "type" \in DOMAIN pred /\ pred.type \in {"H", "h"}

\* the offsets of a type "S" dict, the pass-through values when it has none
EffectiveOffsets(m) ==
  IF "tidepredoffsets" \in DOMAIN m
  THEN m.tidepredoffsets
  ELSE [time_high |-> 0, time_low |-> 0, height_high |-> 10, height_low |-> 10]

\* the request date of a target_date
ExpectedDate(td) ==
  CASE td.kind = "str" /\ td.text = "2025-01-31" -> "20250131"
    [] td.kind = "str" /\ td.text = "" -> "20250131"
    [] td.kind = "datetime" /\ td.dt.mo = 2 /\ td.dt.d = 1 -> "20250201"
    [] td.kind = "None" -> "20250131"
    [] OTHER -> "?"

PredictionRequests ==
  {i \in 1..Len(call.requests) : call.requests[i].service = "predictions"}

\* the station resolver returned a dict of type "S" / of another type
TypeS ==
  /\ call.op = "tide"
  /\ call.resolved
  /\ call.station_metadata # NoDict
  /\ call.station_metadata.type = "S"

SubordinateStation == TypeS /\ Truthy(call.station_metadata.reference_id)

HarmonicStation ==
  /\ call.op = "tide"
  /\ call.resolved
  /\ call.station_metadata # NoDict
  /\ call.station_metadata.type # "S"

\* the offsets request of a type "S" dict failed
OffsetsFetchFailed(m) ==
  /\ Truthy(m.tidepredoffsets_url)
  /\ "tidepredoffsets" \notin DOMAIN m

\* the call has returned after a 200 answer with a list of predictions
Answered == pc = "idle" /\ call.op = "tide" /\ Len(call.predictions_list) = 1

IsSuccess(result) ==
  "tide_conditions" \in DOMAIN result /\ "error" \notin DOMAIN result

IsError(result) ==
  "error" \in DOMAIN result /\ "tide_conditions" \notin DOMAIN result

\* the meters-to-feet conversion of a prediction with its time unmoved
PureConversion(pred) ==
  [ time |-> ExpectedTime(pred.t, 0),
    tide |-> ExpectedFeet(Centimeters[pred.v], 10) ]

\* C2: when the station resolver fails, _get_noaa_tide_data sends no
\* predictions request and returns an error result.
C2_NoFallbackStation ==
  (call.op = "tide" /\ call.resolved /\ call.station_metadata = NoDict) =>
    /\ PredictionRequests = {}
    /\ pc = "idle"
    /\ IsError(call.result)

\* the consequence of C3: the subordinate branch with pass-through offsets
PassThrough ==
  /\ call.branch = "subordinate"
  /\ call.offsets = [time_high |-> 0, time_low |-> 0, height_high |-> 10, height_low |-> 10]
  /\ \A i \in PredictionRequests :
       call.requests[i].station = call.station_metadata.reference_id
  /\ PredictionRequests # {}
  /\ (Answered /\ Len(call.predictions_list[1]) > 0
        /\ WellFormedList(call.predictions_list[1])) =>
       /\ IsSuccess(call.result)
       /\ call.result.tide_conditions =
            [i \in 1..Len(call.predictions_list[1]) |->
               PureConversion(call.predictions_list[1][i])]

AnsweredList == call.predictions_list[1]

\* C6: for a station of a type other than "S" and a non-empty list of
\* predictions, the result has one point per prediction, in the same
\* order, with the height in feet = meters * 3.28084 rounded to 2 decimals
\* and the time the prediction's own time followed by +00:00.
C6_HarmonicConversion ==
  (HarmonicStation /\ Answered /\ Len(AnsweredList) > 0 /\ WellFormedList(AnsweredList)) =>
    /\ IsSuccess(call.result)
    /\ Len(call.result.tide_conditions) = Len(AnsweredList)
    /\ \A i \in 1..Len(AnsweredList) :
         call.result.tide_conditions[i] = PureConversion(AnsweredList[i])

\* C6 witness: two different predictions, one with seconds and a negative
\* height, have been converted for a station of type "R".
C6_Witness ==
  /\ HarmonicStation
  /\ Answered
  /\ IsSuccess(call.result)
  /\ Len(AnsweredList) = 2
  /\ AnsweredList[1].t = "2025-01-31 00:10:30"
  /\ AnsweredList[2].v = "1.23"
  /\ call.result.tide_conditions[1].tide < 0

\* C7: for a dict of type "S" with a reference_id, the call sends exactly
\* one predictions request; it names the reference station, not the
\* beach's own station, and the target date as begin and end date.
C7_ReferenceStationRequest ==
  SubordinateStation =>
    /\ Cardinality(PredictionRequests) = 1
    /\ \A i \in PredictionRequests :
         /\ call.requests[i].station = call.station_metadata.reference_id
         /\ call.requests[i].station # call.station_id
         /\ call.requests[i].begin_date = ExpectedDate(call.target_date)
         /\ call.requests[i].end_date = ExpectedDate(call.target_date)

\* C7 witness: a subordinate station served from the cache, asked for a
\* date given as a datetime.
C7_Witness ==
  /\ SubordinateStation
  /\ call.prior # NoDict
  /\ call.target_date.kind = "datetime"
  /\ pc = "predictions"

\* the reconciled point of a prediction under the offsets o
ExpectedSubordinatePoint(pred, o) ==
  [ time |-> ExpectedTime(pred.t, IF IsHigh(pred) THEN o.time_high ELSE o.time_low),
    tide |-> ExpectedFeet(Centimeters[pred.v],
                          IF IsHigh(pred) THEN o.height_high ELSE o.height_low) ]

\* C8: for a subordinate station every reconciled point has the height
\* meters * 3.28084 * (height_high if High else height_low) rounded to 2
\* decimals once, and the time moved by time_high minutes if High, by
\* time_low minutes otherwise.
C8_SubordinateReconciliation ==
  (SubordinateStation /\ Answered /\ Len(AnsweredList) > 0 /\ WellFormedList(AnsweredList)) =>
    /\ IsSuccess(call.result)
    /\ Len(call.result.tide_conditions) = Len(AnsweredList)
    /\ \A i \in 1..Len(AnsweredList) :
         call.result.tide_conditions[i] =
           ExpectedSubordinatePoint(AnsweredList[i], EffectiveOffsets(call.station_metadata))

\* C8 witness: a high and a low tide have been reconciled with the offsets
\* 45 and -30 minutes, 1.5 and 0.9; the high tide moved to the next day.
C8_Witness ==
  /\ SubordinateStation
  /\ Answered
  /\ IsSuccess(call.result)
  /\ EffectiveOffsets(call.station_metadata) =
       [time_high |-> 45, time_low |-> -30, height_high |-> 15, height_low |-> 9]
  /\ Len(AnsweredList) = 2
  /\ AnsweredList[1] = [t |-> "2025-01-31 23:30", v |-> "1.23", type |-> "H"]
  /\ ~IsHigh(AnsweredList[2])
  /\ call.result.tide_conditions[1] = [time |-> "2025-02-01T00:15:00+00:00", tide |-> 605]

\* the offsets records a subordinate station can carry
OffsetsRecords ==
  [ time_high : {0, 45}, time_low : {0, -30},
    height_high : {10, 15}, height_low : {10, 9} ]

\* the reconciled point when the time shift is applied before the scaling
ShiftThenScale(pred, o) ==
  format_point(apply_height_offset(apply_time_offset(read_point(pred), o), o))

\* the reconciled point when the scaling is applied before the time shift
ScaleThenShift(pred, o) ==
  format_point(apply_time_offset(apply_height_offset(read_point(pred), o), o))

\* C9 as stated: the order is observable: once a subordinate series has
\* been reconciled, there is a prediction and an offsets record for which
\* shifting before scaling gives another point than scaling before
\* shifting.
C9_Original ==
  (SubordinateStation /\ Answered /\ IsSuccess(call.result)) =>
    \E pred \in {r \in RawPoints : WellFormedPoint(r)}, o \in OffsetsRecords :
      ShiftThenScale(pred, o) # ScaleThenShift(pred, o)

\* C9 amended: the scaling is applied before the time shift, and the order
\* is not observable: every reconciled point is also the point obtained by
\* shifting before scaling.
C9_OrderNotObservable ==
  (SubordinateStation /\ Answered /\ IsSuccess(call.result)) =>
    /\ call.offsets \in OffsetsRecords
    /\ \A i \in 1..Len(AnsweredList) :
         /\ call.result.tide_conditions[i] = ScaleThenShift(AnsweredList[i], call.offsets)
         /\ call.result.tide_conditions[i] = ShiftThenScale(AnsweredList[i], call.offsets)

\* C9 witness: a low tide has been reconciled with a time offset and a
\* height factor that both change it.
C9_Witness ==
  /\ SubordinateStation
  /\ Answered
  /\ IsSuccess(call.result)
  /\ call.offsets.time_low = -30
  /\ call.offsets.height_low = 9
  /\ \E i \in 1..Len(AnsweredList) :
       /\ ~IsHigh(AnsweredList[i])
       /\ call.result.tide_conditions[i] # PureConversion(AnsweredList[i])

\* the messages of the NoPredictionsAvailable failure
NoPredictionsMessages ==
  { "No tide predictions available for station " \o call.station_id,
    "No tide predictions available from reference station " \o call.reference_station_id }

\* C10: when the predictions service answers 200 with an empty list, the
\* call returns the NoPredictionsAvailable error, without tide points, in
\* both branches, and the predictions request stays its last request.
C10_EmptyIsFailure ==
  (Answered /\ Len(AnsweredList) = 0) =>
    /\ IsError(call.result)
    /\ call.result.error \in NoPredictionsMessages
    /\ Cardinality(PredictionRequests) = 1
    /\ Len(call.requests) \in PredictionRequests

\* C10 witness: the empty answer came from the reference station of a
\* subordinate station.
C10_Witness ==
  /\ Answered
  /\ Len(AnsweredList) = 0
  /\ call.branch = "subordinate"
  /\ IsError(call.result)

\* ------------------------------------------------------------ C11 .. C14
\* the text sub occurs in the text s
Contains(s, sub) ==
  \E i \in 1..(Len(s) - Len(sub) + 1) : SubSeq(s, i, i + Len(sub) - 1) = sub

\* a call of _get_noaa_tide_data has returned
Finished == pc = "idle" /\ call.op = "tide"

\* the date texts that are not of the form YYYY-MM-DD
MalformedDate ==
  call.target_date.kind = "str" /\ call.target_date.text \notin {"2025-01-31", ""}

\* the messages of the exceptions a malformed prediction raises
MalformedPointMessages ==
  {"could not convert string to float", "time data does not match format"}

\* C11: no exception leaves _get_noaa_tide_data: every call returns a
\* tagged record, either a success or an error; a malformed date, an
\* exception of the predictions request, a status other than 200 and a
\* malformed time or height of a prediction each give an error result that
\* carries the exception's message or the status.
C11_NoExceptionEscapes ==
  Finished =>
    /\ IsSuccess(call.result) \/ IsError(call.result)
    /\ (Truthy(call.station_id) /\ MalformedDate) =>
         /\ IsError(call.result)
         /\ Contains(call.result.error, "time data does not match format")
    /\ (call.answer # NoDict /\ call.answer.exc # None) =>
         /\ IsError(call.result)
         /\ Contains(call.result.error, call.answer.exc)
    /\ (call.answer # NoDict /\ call.answer.exc = None /\ call.answer.status_code # 200) =>
         /\ IsError(call.result)
         /\ Contains(call.result.error, "HTTP " \o ToString(call.answer.status_code))
    /\ (Answered /\ ~WellFormedList(AnsweredList)) =>
         /\ IsError(call.result)
         /\ \E m \in MalformedPointMessages : Contains(call.result.error, m)

\* C11 witness: in the subordinate branch the second prediction of the
\* answer has a height that is not a number, and the call has returned the
\* error of the conversion.
C11_Witness ==
  /\ Finished
  /\ call.branch = "subordinate"
  /\ Answered
  /\ Len(AnsweredList) = 2
  /\ WellFormedPoint(AnsweredList[1])
  /\ AnsweredList[2].v = "n/a"
  /\ IsError(call.result)
  /\ Contains(call.result.error, "could not convert string to float")

\* a beach name with its letters in lower case
Folded ==
  ("pleasure point" :> "pleasure point") @@ ("Malibu" :> "malibu")
  @@ ("MALIBU" :> "malibu") @@ ("pleasure" :> "pleasure") @@ ("atlantis" :> "atlantis")

\* the rows of the static table
StationOfBeach == ("pleasure point" :> "9413745") @@ ("malibu" :> "9410660")

\* C12: the station of a call is the table's row for the beach name with
\* its letters folded to lower case, so two names that differ only in
\* letter case have the same station; a name that is not a row of the
\* table, part of a row included, gives the "No tide station found" error
\* and no request is sent.
C12_CaseInsensitiveExactLookup ==
  call.op = "tide" =>
    IF Folded[call.beach_name] \in DOMAIN StationOfBeach
    THEN /\ call.station_id = StationOfBeach[Folded[call.beach_name]]
         /\ \A b \in BeachNames :
              Folded[b] = Folded[call.beach_name] => station_for(b) = call.station_id
    ELSE /\ Finished
         /\ IsError(call.result)
         /\ call.result.error = "No tide station found for " \o call.beach_name
         /\ call.requests = <<>>

\* C12 witness: a call for "MALIBU" runs for station 9410660 and is served
\* the dict an earlier call has cached for it.
C12_Witness ==
  /\ call.op = "tide"
  /\ call.beach_name = "MALIBU"
  /\ call.station_id = "9410660"
  /\ call.prior # NoDict
  /\ pc = "predictions"

\* C12 second witness: part of a name of the table has been refused.
C12_WitnessPartial ==
  /\ Finished
  /\ call.beach_name = "pleasure"
  /\ IsError(call.result)
  /\ call.requests = <<>>

\* the type field of a prediction is the capital letter H
TypeIsCapitalH(pred) == "type" \in DOMAIN pred /\ pred.type = "H"

\* the reconciled point of a prediction given the high-tide or the
\* low-tide treatment under the offsets o
Treated(pred, high, o) ==
  [ time |-> ExpectedTime(pred.t, IF high THEN o.time_high ELSE o.time_low),
    tide |-> ExpectedFeet(Centimeters[pred.v],
                          IF high THEN o.height_high ELSE o.height_low) ]

\* a subordinate series has been reconciled from well-formed predictions
Reconciled ==
  /\ SubordinateStation
  /\ Answered
  /\ Len(AnsweredList) > 0
  /\ WellFormedList(AnsweredList)
  /\ IsSuccess(call.result)

\* C13 as stated: in the subordinate branch a prediction gets the
\* high-tide treatment only when its type field is the letter 'H', and the
\* low-tide treatment for every other type value.
C13_Original ==
  Reconciled =>
    \A i \in 1..Len(AnsweredList) :
      call.result.tide_conditions[i] =
        Treated(AnsweredList[i], TypeIsCapitalH(AnsweredList[i]),
                EffectiveOffsets(call.station_metadata))

\* C13 amended: a prediction gets the high-tide treatment exactly when its
\* type field is the letter H in either letter case ('H' or 'h'); a
\* missing type and every other value get the low-tide treatment.
C13_HighInEitherLetterCase ==
  Reconciled =>
    \A i \in 1..Len(AnsweredList) :
      LET pred == AnsweredList[i]
          o == EffectiveOffsets(call.station_metadata)
      IN IF "type" \in DOMAIN pred /\ pred.type \in {"H", "h"}
         THEN call.result.tide_conditions[i] = Treated(pred, TRUE, o)
         ELSE call.result.tide_conditions[i] = Treated(pred, FALSE, o)

\* C13 witness: a prediction of type 'h' and one of type 'L' have been
\* reconciled with offsets that tell the two treatments apart.
C13_Witness ==
  /\ Reconciled
  /\ Len(AnsweredList) = 2
  /\ Get(AnsweredList[1], "type", "") = "h"
  /\ Get(AnsweredList[2], "type", "") = "L"
  /\ call.offsets.time_high = 45
  /\ call.offsets.time_low = -30
  /\ call.result.tide_conditions[1].time = "2025-01-31T06:50:00+00:00"
  /\ call.result.tide_conditions[2].time = "2025-01-30T23:40:30+00:00"

\* C13 second witness: a prediction without a type field has been given
\* the low-tide treatment.
C13_WitnessMissingType ==
  /\ Reconciled
  /\ \E i \in 1..Len(AnsweredList) :
       /\ "type" \notin DOMAIN AnsweredList[i]
       /\ call.offsets.height_low = 9
       /\ call.result.tide_conditions[i] # PureConversion(AnsweredList[i])

\* C14: when the resolver has returned a dict whose type is not "S", the
\* call sends one predictions request, for the beach's own station; the
\* offsets request is never sent for it; a well-formed answer is converted
\* point by point without offset or factor; and no result of the call has
\* a reference_station_id.
C14_OtherTypesAreHarmonic ==
  HarmonicStation =>
    /\ call.branch = "harmonic"
    /\ Cardinality(PredictionRequests) = 1
    /\ \A i \in PredictionRequests :
         /\ call.requests[i].station = call.station_id
         /\ call.requests[i].station = StationOfBeach[Folded[call.beach_name]]
    /\ \A i \in 1..Len(call.requests) : call.requests[i].service # "offsets"
    /\ "tidepredoffsets" \notin DOMAIN call.station_metadata
    /\ Finished =>
         /\ "reference_station_id" \notin DOMAIN call.result
         /\ (Answered /\ Len(AnsweredList) > 0 /\ WellFormedList(AnsweredList)) =>
              /\ IsSuccess(call.result)
              /\ call.result.station_id = call.station_id
              /\ call.result.tide_conditions =
                   [i \in 1..Len(AnsweredList) |-> PureConversion(AnsweredList[i])]

\* C14 witness: the dict has no type but a reference_id and an offsets
\* link, and a high tide has been converted for the station's own id.
C14_Witness ==
  /\ HarmonicStation
  /\ call.station_metadata.type = ""
  /\ Truthy(call.station_metadata.reference_id)
  /\ Truthy(call.station_metadata.tidepredoffsets_url)
  /\ Finished
  /\ Answered
  /\ IsSuccess(call.result)
  /\ Len(AnsweredList) = 1
  /\ Get(AnsweredList[1], "type", "") = "H"

\* ============================================================ summarizer
\* SurfSummarizer.parse_best_times_from_analysis
\* (src/src/wavewatch/llm/summarizer.py).  Texts are strings; a position is
\* the index of a character, starting at 1, and the end of a match is the
\* position after its last character.  0 stands for "no match".
\* ------------------------------------------------------ text primitives
\* the character at position i, "" outside the text
Ch(s, i) == IF i >= 1 /\ i <= Len(s) THEN SubSeq(s, i, i) ELSE ""

\* s[i-1:j-1] of Python: the characters from position i up to position j
Slice(s, i, j) == SubSeq(s, i, j - 1)

\* the literal lit stands at position i
At(s, i, lit) ==
  /\ i >= 1
  /\ i + Len(lit) - 1 <= Len(s)
  /\ SubSeq(s, i, i + Len(lit) - 1) = lit

Digit == {"0", "1", "2", "3", "4", "5", "6", "7", "8", "9"}
Space == {" ", "\t", "\n", "\r"}          \* \s on the characters that occur
ColonOrSpace == Space \cup {":"}          \* [:\s]
ColonOrDot == {":", "."}                  \* [:.]
Dash == {"-"}                             \* [-–—]: the ASCII dash only

\* re.IGNORECASE: one letter in lower case
LowerCh(c) ==
  CASE c = "A" -> "a" [] c = "B" -> "b" [] c = "C" -> "c" [] c = "D" -> "d"
    [] c = "E" -> "e" [] c = "F" -> "f" [] c = "G" -> "g" [] c = "H" -> "h"
    [] c = "I" -> "i" [] c = "J" -> "j" [] c = "K" -> "k" [] c = "L" -> "l"
    [] c = "M" -> "m" [] c = "N" -> "n" [] c = "O" -> "o" [] c = "P" -> "p"
    [] c = "Q" -> "q" [] c = "R" -> "r" [] c = "S" -> "s" [] c = "T" -> "t"
    [] c = "U" -> "u" [] c = "V" -> "v" [] c = "W" -> "w" [] c = "X" -> "x"
    [] c = "Y" -> "y" [] c = "Z" -> "z" [] OTHER -> c

\* the text with its letters in lower case; positions are unchanged
RECURSIVE casefold(_)
casefold(s) ==
  IF Len(s) <= 1 THEN LowerCh(s)
  ELSE casefold(SubSeq(s, 1, Len(s) \div 2))
       \o casefold(SubSeq(s, Len(s) \div 2 + 1, Len(s)))

\* a greedy class repetition X{0,max} at i: the position after it
RECURSIVE Run(_, _, _, _)
Run(s, i, class, max) ==
  IF max > 0 /\ Ch(s, i) \in class THEN Run(s, i + 1, class, max - 1) ELSE i

\* X* at i
Star(s, i, class) == Run(s, i, class, Len(s))

\* an optional literal at i
Opt(s, i, lit) == IF At(s, i, lit) THEN i + Len(lit) ELSE i

\* the least position of a set of positions, 0 if it is empty
First(positions) ==
  IF positions = {} THEN 0 ELSE CHOOSE i \in positions : \A j \in positions : i <= j

\* str.strip()
RECURSIVE lstrip(_)
lstrip(s) == IF s # "" /\ Head(s) \in Space THEN lstrip(Tail(s)) ELSE s

RECURSIVE rstrip(_)
rstrip(s) ==
  IF s # "" /\ Ch(s, Len(s)) \in Space THEN rstrip(SubSeq(s, 1, Len(s) - 1)) ELSE s

strip(s) == lstrip(rstrip(s))

\* int() of a text of digits
DigitValue(c) ==
  CASE c = "0" -> 0 [] c = "1" -> 1 [] c = "2" -> 2 [] c = "3" -> 3 [] c = "4" -> 4
    [] c = "5" -> 5 [] c = "6" -> 6 [] c = "7" -> 7 [] c = "8" -> 8 [] c = "9" -> 9

RECURSIVE int(_)
int(s) ==
  IF s = "" THEN 0 ELSE 10 * int(SubSeq(s, 1, Len(s) - 1)) + DigitValue(Ch(s, Len(s)))

\* ------------------------------------------------- the time pattern
\* [0-9]{1,2}[:.]?[0-9]{0,2}\s*(?:AM|PM|am|pm)? under re.IGNORECASE, at a
\* digit at position i of the case-folded text s: the position after it
MeridiemEnd(s, i) == IF At(s, i, "am") \/ At(s, i, "pm") THEN i + 2 ELSE 0

ClockEnd(s, i) ==
  LET d == Run(s, i, Digit, 2)
      c == Run(s, d, ColonOrDot, 1)
      m == Run(s, c, Digit, 2)
  IN Star(s, m, Space)

SingleTimeEnd(s, i) ==
  LET w == ClockEnd(s, i)
  IN IF MeridiemEnd(s, w) # 0 THEN MeridiemEnd(s, w) ELSE w

\* (?:\s*[-–—]\s*[0-9]{1,2}[:.]?[0-9]{0,2}\s*(?:AM|PM|am|pm))? at i: the
\* position after the group, 0 if the group does not match
RangeTailEnd(s, i) ==
  LET a == Star(s, i, Space)
      b == Star(s, a + 1, Space)
  IN IF Ch(s, a) \in Dash /\ Ch(s, b) \in Digit
     THEN MeridiemEnd(s, ClockEnd(s, b))
     ELSE 0

\* the whole time pattern at i: the position after the match, 0 if none
TimeEnd(s, i) ==
  IF Ch(s, i) \notin Digit THEN 0
  ELSE LET e == SingleTimeEnd(s, i)
       IN IF RangeTailEnd(s, e) # 0 THEN RangeTailEnd(s, e) ELSE e

\* ------------------------------------------------- the heading patterns
\* a re.Match with its group 1, and the None of a failed search
Match(group) == [matched |-> TRUE, group |-> group]
NoMatch == [matched |-> FALSE]

\* $ without re.MULTILINE: the end of the text, or its last newline
AtEnd(s, q) == q = Len(s) + 1 \/ (q = Len(s) /\ Ch(s, q) = "\n")

\* (?=\*\*3\.|3\.\s*\*\*|specific recommendations|notable changes|$) at q
SectionStop(s, q) ==
  \/ At(s, q, "**3.")
  \/ At(s, q, "3.") /\ At(s, Star(s, q + 2, Space), "**")
  \/ At(s, q, "specific recommendations")
  \/ At(s, q, "notable changes")
  \/ AtEnd(s, q)

\* (?=\n\*\*|\n\d+\.\s*\*\*|specific recommendations|notable changes|$) at q
LooseSectionStop(s, q) ==
  \/ At(s, q, "\n**")
  \/ LET d == Star(s, q + 1, Digit)
     IN /\ At(s, q, "\n")
        /\ d > q + 1
        /\ At(s, d, ".")
        /\ At(s, Star(s, d + 1, Space), "**")
  \/ At(s, q, "specific recommendations")
  \/ At(s, q, "notable changes")
  \/ AtEnd(s, q)

\* a literal, an optional colon, \s*, and "**": the position after it
EmphasisEnd(s, i, lit) ==
  LET c == Star(s, Opt(s, i + Len(lit), ":"), Space)
  IN IF At(s, i, lit) /\ At(s, c, "**") THEN c + 2 ELSE 0

\* line 203: (?:2\.\s*\*\*best time to surf\*\*:?\s*\*\*|best time to
\* surf:?\s*\*\*) at i of the case-folded text: the position after it
PrimaryHeadingEnd(s, i) ==
  LET a == Star(s, i + 2, Space)
  IN IF At(s, i, "2.") /\ EmphasisEnd(s, a, "**best time to surf**") # 0
     THEN EmphasisEnd(s, a, "**best time to surf**")
     ELSE EmphasisEnd(s, i, "best time to surf")

\* line 210: (?:2\.\s*\*\*best times to surf\*\*:|best times to surf:)
PluralHeadingEnd(s, i) ==
  LET a == Star(s, i + 2, Space)
  IN IF At(s, i, "2.") /\ At(s, a, "**best times to surf**:")
     THEN a + Len("**best times to surf**:")
     ELSE IF At(s, i, "best times to surf:")
     THEN i + Len("best times to surf:")
     ELSE 0

\* line 215: best time to surf.*?\n at i: the position after the newline
LooseHeadingEnd(s, i) ==
  LET n == First({k \in (i + Len("best time to surf"))..Len(s) : Ch(s, k) = "\n"})
  IN IF At(s, i, "best time to surf") /\ n # 0 THEN n + 1 ELSE 0

\* lines 203-206: re.search of the primary pattern; group 1 follows [:\s]*
\* and runs up to the first stop
primary_match(text) ==
  LET s == casefold(text)
      i == First({k \in 1..Len(s) : PrimaryHeadingEnd(s, k) # 0})
      g == Star(s, PrimaryHeadingEnd(s, i), ColonOrSpace)
  IN IF i = 0 THEN NoMatch
     ELSE Match(Slice(text, g, First({q \in g..(Len(s) + 1) : SectionStop(s, q)})))

\* lines 210-211: re.search of the pattern for "best times to surf"
plural_match(text) ==
  LET s == casefold(text)
      i == First({k \in 1..Len(s) : PluralHeadingEnd(s, k) # 0})
      g == Star(s, PluralHeadingEnd(s, i), ColonOrSpace)
  IN IF i = 0 THEN NoMatch
     ELSE Match(Slice(text, g, First({q \in g..(Len(s) + 1) : SectionStop(s, q)})))

\* lines 215-216: re.search of the pattern without the colon; group 1
\* starts on the line after the heading
loose_match(text) ==
  LET s == casefold(text)
      i == First({k \in 1..Len(s) : LooseHeadingEnd(s, k) # 0})
      g == LooseHeadingEnd(s, i)
  IN IF i = 0 THEN NoMatch
     ELSE Match(Slice(text, g, First({q \in g..(Len(s) + 1) : LooseSectionStop(s, q)})))

\* variant: without a heading the whole text is the section
best_times_match_whole_text(text) ==
  IF primary_match(text).matched THEN primary_match(text)
  ELSE IF plural_match(text).matched THEN plural_match(text)
  ELSE IF loose_match(text).matched THEN loose_match(text)
  ELSE Match(text)

\* lines 203-216: the three searches in turn
best_times_match(text) ==
  IF primary_match(text).matched THEN primary_match(text)
  ELSE IF plural_match(text).matched THEN plural_match(text)
  ELSE loose_match(text)

\* ------------------------------------------------------------ entries
\* ^ under re.MULTILINE: position i starts a line
LineStart(s, i) == i = 1 \/ Ch(s, i - 1) = "\n"

\* line 227: the time pattern at the start of a line of the section
time_at_start(section) ==
  LET s == casefold(section)
  IN \E i \in 1..Len(s) : LineStart(s, i) /\ TimeEnd(s, i) # 0

\* line 235: re.finditer of the time pattern followed by :? from position
\* i on: the start positions of the successive matches
RECURSIVE time_starts(_, _)
time_starts(s, i) ==
  LET m == First({k \in i..Len(s) : TimeEnd(s, k) # 0})
  IN IF m = 0 THEN <<>>
     ELSE <<m>> \o time_starts(s, Opt(s, TimeEnd(s, m), ":"))

\* lines 229-245: the entries of the section
split_entries(section) ==
  LET matches == time_starts(casefold(section), 1)
  IN IF time_at_start(section) THEN <<section>>
     ELSE IF Len(matches) > 0
     THEN [k \in 1..Len(matches) |->
             Slice(section, matches[k],
                   IF k < Len(matches) THEN matches[k + 1] ELSE Len(section) + 1)]
     ELSE <<section>>

\* --------------------------------------------------- fields of an entry
\* lines 254-261: the time of an entry, "" if the pattern is not found
time_str_of(entry_text) ==
  LET s == casefold(entry_text)
      i == First({k \in 1..Len(s) : TimeEnd(s, k) # 0})
      group == strip(Slice(entry_text, i, TimeEnd(s, i)))
  IN IF i = 0 THEN ""
     ELSE IF group # "" /\ Ch(group, Len(group)) = ":"
     THEN strip(SubSeq(group, 1, Len(group) - 1))
     ELSE group

\* (?:\*\s*)? at i: the positions the pattern may go on from
AfterBullet(s, i) ==
  IF At(s, i, "*") THEN {Star(s, i + 1, Space), i} ELSE {i}

\* one of the words at position k: the position after it, 0 if none is
WordEnd(s, k, words) ==
  IF \E w \in words : At(s, k, w)
  THEN k + Len(CHOOSE w \in words : At(s, k, w))
  ELSE 0

\* line 264: (?:\*\s*)?(?:rating|score|rated)[:\s]*(\d{1,3}) matched from
\* position i: the position of group 1, 0 if there is no match
RatingGroup(s, i) ==
  First({ Star(s, WordEnd(s, k, {"rating", "score", "rated"}), ColonOrSpace) :
            k \in {k \in AfterBullet(s, i) :
                     /\ WordEnd(s, k, {"rating", "score", "rated"}) # 0
                     /\ Ch(s, Star(s, WordEnd(s, k, {"rating", "score", "rated"}),
                                   ColonOrSpace)) \in Digit} })

\* an optional value: <<>> is Python's None, <<v>> the value v
Nothing == <<>>
Some(v) == <<v>>

\* lines 264-265: the rating of an entry
rating_of(entry_text) ==
  LET s == casefold(entry_text)
      i == First({k \in 1..Len(s) : RatingGroup(s, k) # 0})
      g == RatingGroup(s, i)
  IN IF i = 0 THEN Nothing ELSE Some(int(Slice(s, g, Run(s, g, Digit, 3))))

\* [^\d]*? followed by a group that starts with a digit: the position of
\* the first digit from i on, past the end if there is none.  The optional
\* (?:height|size)?, (?:speed)? and [:\s]* between the two hold no digit,
\* so they do not move the group.
NextDigit(s, i) == First({k \in i..(Len(s) + 1) : Ch(s, k) \in Digit \/ k = Len(s) + 1})

\* \d+\.?\d* at a digit at p: the position after it
NumberEnd(s, p) == Star(s, Opt(s, Star(s, p, Digit), "."), Digit)

\* \d+\.?\d*\s*[-–—]\s*\d+\.?\d*<unit> at p: the position after it, or 0
RangeWithUnitEnd(s, p, unit) ==
  LET a == Star(s, NumberEnd(s, p), Space)
      b == Star(s, a + 1, Space)
  IN IF /\ Ch(s, p) \in Digit
        /\ Ch(s, a) \in Dash
        /\ Ch(s, b) \in Digit
        /\ At(s, NumberEnd(s, b), unit)
     THEN NumberEnd(s, b) + Len(unit)
     ELSE 0

\* \d+\.?\d*<unit> at p: the position after it, or 0
ValueWithUnitEnd(s, p, unit) ==
  IF Ch(s, p) \in Digit /\ At(s, NumberEnd(s, p), unit)
  THEN NumberEnd(s, p) + Len(unit)
  ELSE 0

\* (?:\*\s*)?<word>[^\d]*? matched from position i: the positions where
\* the group that follows may start
AfterWord(s, i, word) ==
  {NextDigit(s, k + Len(word)) : k \in {k \in AfterBullet(s, i) : At(s, k, word)}}

\* lines 268-272 and 279-283: the text of a range "a-b<unit>" after the
\* word, else of a single value "a<unit>", else None
measure_of(entry_text, word, unit) ==
  LET s == casefold(entry_text)
      ranges == {p \in UNION {AfterWord(s, i, word) : i \in 1..Len(s)} :
                   RangeWithUnitEnd(s, p, unit) # 0}
      values == {p \in UNION {AfterWord(s, i, word) : i \in 1..Len(s)} :
                   ValueWithUnitEnd(s, p, unit) # 0}
  IN IF ranges # {}
     THEN strip(Slice(entry_text, First(ranges), RangeWithUnitEnd(s, First(ranges), unit)))
     ELSE IF values # {}
     THEN strip(Slice(entry_text, First(values), ValueWithUnitEnd(s, First(values), unit)))
     ELSE None

wave_height_range_of(entry_text) == measure_of(entry_text, "wave", "ft")
wind_speed_range_of(entry_text) == measure_of(entry_text, "wind", "mph")

\* lines 275-276: (?:\*\s*)?period[^\d]*?[:\s]*(\d+)\s*s(?:ec(?:ond)?s?)?
period_of(entry_text) ==
  LET s == casefold(entry_text)
      groups == {p \in UNION {AfterWord(s, i, "period") : i \in 1..Len(s)} :
                   /\ Ch(s, p) \in Digit
                   /\ At(s, Star(s, Star(s, p, Digit), Space), "s")}
  IN IF groups = {} THEN Nothing
     ELSE Some(int(Slice(s, First(groups), Star(s, First(groups), Digit))))

\* ----------------------------------------------------- the explanation
\* (?=\n\s*(?:specific recommendations|notable changes|\d+\.\s*\*\*|$)) at q
ExplanationStop(s, q) ==
  LET w == Star(s, q + 1, Space)
      d == Star(s, w, Digit)
  IN /\ At(s, q, "\n")
     /\ \/ At(s, w, "specific recommendations")
        \/ At(s, w, "notable changes")
        \/ d > w /\ At(s, d, ".") /\ At(s, Star(s, d + 1, Space), "**")
        \/ w = Len(s) + 1

\* <word>[:\s]+ at k, the separator giving characters back to the group
\* that follows: the positions where that group may start
AfterLabel(s, k, word) ==
  IF At(s, k, word)
  THEN (k + Len(word) + 1)..Star(s, k + Len(word), ColonOrSpace)
  ELSE {}

\* the greatest position of a non-empty set of positions
Last(positions) == CHOOSE i \in positions : \A j \in positions : j <= i

\* line 286: explanation[:\s]+(.+?)(?=...) at k: group 1 as a pair of
\* positions, <<>> if there is no match; the separator is greedy and the
\* group lazy
BoundedExplanation(s, k) ==
  LET starts == {g \in AfterLabel(s, k, "explanation") :
                   \E q \in (g + 1)..Len(s) : ExplanationStop(s, q)}
      g == Last(starts)
  IN IF starts = {} THEN <<>>
     ELSE <<g, First({q \in (g + 1)..Len(s) : ExplanationStop(s, q)})>>

\* lines 289 and 295: <word>[:\s]+(.+) at k: the start of group 1, which
\* runs to the end of the entry; 0 if there is no match
OpenLabelGroup(s, k, word) ==
  LET starts == {g \in AfterLabel(s, k, word) : g <= Len(s)}
  IN IF starts = {} THEN 0 ELSE Last(starts)

\* lines 286-299: the explanation of an entry before it is cleaned, "" if
\* there is none
raw_reason_of(entry_text) ==
  LET s == casefold(entry_text)
      bounded == First({k \in 1..Len(s) : BoundedExplanation(s, k) # <<>>})
      open == First({k \in 1..Len(s) : OpenLabelGroup(s, k, "explanation") # 0})
      reason == First({k \in 1..Len(s) : OpenLabelGroup(s, k, "reason") # 0})
  IN IF bounded # 0
     THEN strip(Slice(entry_text, BoundedExplanation(s, bounded)[1],
                      BoundedExplanation(s, bounded)[2]))
     ELSE IF open # 0
     THEN strip(Slice(entry_text, OpenLabelGroup(s, open, "explanation"), Len(s) + 1))
     ELSE IF reason # 0
     THEN strip(Slice(entry_text, OpenLabelGroup(s, reason, "reason"), Len(s) + 1))
     ELSE ""

\* re.sub of a literal by nothing
RECURSIVE remove_all(_, _)
remove_all(s, lit) ==
  LET m == First({k \in 1..Len(s) : At(s, k, lit)})
  IN IF m = 0 THEN s
     ELSE SubSeq(s, 1, m - 1) \o remove_all(SubSeq(s, m + Len(lit), Len(s)), lit)

\* line 308: re.sub(r'[ \t]+', ' ', reason)
RECURSIVE squeeze_blanks(_)
squeeze_blanks(s) ==
  LET m == First({k \in 1..Len(s) : Ch(s, k) \in {" ", "\t"}})
  IN IF m = 0 THEN s
     ELSE SubSeq(s, 1, m - 1) \o " "
          \o squeeze_blanks(SubSeq(s, Star(s, m, {" ", "\t"}), Len(s)))

\* line 309: re.sub(r'\n[ \t]*\n+', '\n\n', reason)
RECURSIVE squeeze_newlines(_)
squeeze_newlines(s) ==
  LET m == First({k \in 1..Len(s) :
                    Ch(s, k) = "\n" /\ Ch(s, Star(s, k + 1, {" ", "\t"})) = "\n"})
      b == Star(s, m + 1, {" ", "\t"})
  IN IF m = 0 THEN s
     ELSE SubSeq(s, 1, m - 1) \o "\n\n"
          \o squeeze_newlines(SubSeq(s, Star(s, b, {"\n"}), Len(s)))

\* line 312: re.sub(r'[:]\s*$', '', reason).strip() on a stripped text
drop_trailing_colon(s) ==
  IF s # "" /\ Ch(s, Len(s)) = ":" THEN strip(SubSeq(s, 1, Len(s) - 1)) ELSE s

\* lines 302-312 and 322: the cleaned explanation, None for an empty one
clean_reason(reason) ==
  IF reason = "" THEN None
  ELSE LET cleaned ==
             drop_trailing_colon(strip(squeeze_newlines(squeeze_blanks(
               remove_all(remove_all(reason, "**"), "*")))))
       IN IF cleaned = "" THEN None ELSE cleaned

reason_of(entry_text) == clean_reason(raw_reason_of(entry_text))

\* ------------------------------------------------------ the best window
\* lines 247-323: the dicts one entry appends to best_times (none or one)
parse_entry(entry) ==
  LET entry_text == strip(entry)
  IN IF entry_text = "" \/ time_str_of(entry_text) = ""
     THEN <<>>
     ELSE << [ time |-> time_str_of(entry_text),
               rating |-> rating_of(entry_text),
               wave_height_range |-> wave_height_range_of(entry_text),
               period |-> period_of(entry_text),
               wind_speed_range |-> wind_speed_range_of(entry_text),
               reason |-> reason_of(entry_text) ] >>

\* line 326: the sort key, x.get('rating', 0) or 0
rating_key(x) == IF x.rating = Nothing THEN 0 ELSE x.rating[1]

\* list.sort(key=rating_key, reverse=True): stable, equal keys keep their
\* order
RECURSIVE insert_by_rating(_, _)
insert_by_rating(sorted, x) ==
  IF sorted = <<>> THEN <<x>>
  ELSE IF rating_key(Head(sorted)) >= rating_key(x)
  THEN <<Head(sorted)>> \o insert_by_rating(Tail(sorted), x)
  ELSE <<x>> \o sorted

RECURSIVE sort_by_rating(_)
sort_by_rating(list) ==
  IF list = <<>> THEN <<>>
  ELSE insert_by_rating(sort_by_rating(SubSeq(list, 1, Len(list) - 1)),
                        list[Len(list)])

\* lines 326-329: best_times[:1] after the sort
best_of(best_times) ==
  IF best_times = <<>> THEN <<>> ELSE SubSeq(sort_by_rating(best_times), 1, 1)

\* the whole function on a text, lines 203-329
RECURSIVE parse_entries(_)
parse_entries(entries) ==
  IF entries = <<>> THEN <<>>
  ELSE parse_entry(Head(entries)) \o parse_entries(Tail(entries))

parse_best_times_from_analysis(text) ==
  IF ~best_times_match(text).matched THEN <<>>
  ELSE best_of(parse_entries(split_entries(best_times_match(text).group)))

\* ------------------------------------------------ inputs of the extractor
\* the line of the heading, up to where the best window is written
Headings ==
  { "Best Time to Surf: ",
    "Best Time to Surf:\n",
    "**Best Time to Surf:** ",
    "2. **Best Time to Surf**: ",
    "1. **Overall**: fair\n2. **Best Times to Surf**:\n",
    "Surf outlook for today: " }

\* what the narrative generator writes under the heading
FixtureWindow ==
  "8:00 AM - 9:00 AM\n* Rating: 80/100\n* Wave Height: 4.2-4.8ft\n"
  \o "* Wave Period: 14s\n* Wind Speed: 0.6-1.2mph\nExplanation: clean conditions"

TwoWindows ==
  "6:00 AM - 7:00 AM\n* Rating: 60/100\n5:00 PM - 6:00 PM\n* Rating: 90/100"

TwoWindowsInline ==
  "from 6:00 AM - 7:00 AM (rating: 60) or from 5:00 PM - 6:00 PM (rating: 90)"

FiguresWithoutTime == "* Rating: 80/100\n* Wave Height: 4.2-4.8ft\n* Wave Period: 14s"

NoFigures == "early morning\nExplanation: **glassy**  and clean:"

TerseWindow == "7 AM: rated 70, waves 3ft, period 9 sec, wind 5mph. Reason: offshore"

OverRatedWindow == "9:00 AM - 10:00 AM\n* Rating: 120/100\n* Wave Height: 3.0-4.0ft"

Windows ==
  {FixtureWindow, TwoWindows, TwoWindowsInline, FiguresWithoutTime, NoFigures, TerseWindow,
   OverRatedWindow}

\* what follows the best window
Endings == {"", "\n\n3. **Specific Recommendations**: paddle out at 6\n"}

\* a narrative that names the best time in a sentence, on its last line
ProseOnly == "Today the best time to surf is 8:00 AM - 9:00 AM (rating: 80)."

Narratives == {h \o w \o e : h \in Headings, w \in Windows, e \in Endings}

\* ai_analysis_text values a caller passes: a text, or a value that is not
\* a text
AnalysisInputs ==
  {[kind |-> "str", text |-> t] : t \in Narratives \cup {"", ProseOnly}}
  \cup {[kind |-> "None"], [kind |-> "int"]}

\* ------------------------------------------- the call of the extractor
\* the frame at the entry of parse_best_times_from_analysis (line 197)
NewExtraction(input) ==
  [ pc |-> "search",
    ai_analysis_text |-> input,
    best_times_section |-> None,
    entries |-> <<>>,
    best_times |-> <<>>,
    exception |-> None,                 \* the exception raised in the try block
    raised |-> None,                    \* the exception that left the function
    result |-> None ]                   \* the list returned

\* return of the function with a list
ReturnList(x, list) == [x EXCEPT !.pc = "done", !.result = list]

\* variant: the handler lets the exception through
on_exception_reraise(x) == [x EXCEPT !.pc = "done", !.raised = x.exception]

\* lines 331-335: except Exception: ... return []
on_exception(x) == ReturnList(x, <<>>)

\* lines 203-221: the searches for the section; re.search raises TypeError
\* when the argument is not a text
FindSection ==
  /\ extractor.pc = "search"
  /\ LET input == extractor.ai_analysis_text
     IN IF input.kind # "str"
        THEN extractor' = [extractor EXCEPT
                             !.pc = "except",
                             !.exception = "expected string or bytes-like object"]
        ELSE IF ~best_times_match(input.text).matched
        THEN extractor' = ReturnList(extractor, <<>>)
        ELSE extractor' = [extractor EXCEPT
                             !.pc = "split",
                             !.best_times_section = best_times_match(input.text).group]
  /\ UNCHANGED <<tide_vars, request, threads, fetch>>

\* lines 227-245: the section cut into entries
SplitEntries ==
  /\ extractor.pc = "split"
  /\ extractor' = [extractor EXCEPT
                     !.pc = "entries",
                     !.entries = split_entries(extractor.best_times_section)]
  /\ UNCHANGED <<tide_vars, request, threads, fetch>>

\* lines 247-323: one turn of the loop over the entries
ParseEntry ==
  /\ extractor.pc = "entries"
  /\ extractor.entries # <<>>
  /\ extractor' = [extractor EXCEPT
                     !.entries = Tail(@),
                     !.best_times = @ \o parse_entry(Head(extractor.entries))]
  /\ UNCHANGED <<tide_vars, request, threads, fetch>>

\* lines 326-329: the sort and the return after the loop
SortAndReturn ==
  /\ extractor.pc = "entries"
  /\ extractor.entries = <<>>
  /\ extractor' = ReturnList(extractor, best_of(extractor.best_times))
  /\ UNCHANGED <<tide_vars, request, threads, fetch>>

\* lines 331-335: the handler of the try block
HandleException ==
  /\ extractor.pc = "except"
  /\ extractor' = on_exception(extractor)
  /\ UNCHANGED <<tide_vars, request, threads, fetch>>

ExtractorInit ==
  /\ station_metadata_cache = <<>>
  /\ next_oid = 1
  /\ returned = <<>>
  /\ pc = "idle"
  /\ call = NewCall("none", None, [kind |-> "None"], None)
  /\ request = NoDict
  /\ threads = NoDict
  /\ fetch = NoDict
  /\ \E input \in AnalysisInputs : extractor = NewExtraction(input)

ExtractorNext ==
  \/ FindSection
  \/ SplitEntries
  \/ ParseEntry
  \/ SortAndReturn
  \/ HandleException

ExtractorSpec == ExtractorInit /\ [][ExtractorNext]_vars

\* ------------------------------------------------------------ C15 .. C19
\* the extractor has returned for a text
Extracted == extractor.pc = "done" /\ extractor.ai_analysis_text.kind = "str"

\* the text of the call
Narrative == extractor.ai_analysis_text.text

\* the narrative of C15: the heading with the time on its line, no emphasis
FixtureNarrative ==
  "Best Time to Surf: 8:00 AM - 9:00 AM\n* Rating: 80/100\n"
  \o "* Wave Height: 4.2-4.8ft\n* Wave Period: 14s\n"
  \o "* Wind Speed: 0.6-1.2mph\nExplanation: clean conditions"

FixtureRecord ==
  [ time |-> "8:00 AM - 9:00 AM",
    rating |-> Some(80),
    wave_height_range |-> "4.2-4.8ft",
    period |-> Some(14),
    wind_speed_range |-> "0.6-1.2mph",
    reason |-> "clean conditions" ]

\* C15: for the fixture narrative parse_best_times_from_analysis returns
\* the one record with time "8:00 AM - 9:00 AM", rating 80, wave height
\* "4.2-4.8ft", period 14, wind speed "0.6-1.2mph" and explanation "clean
\* conditions".
C15_FixtureExtraction ==
  (Extracted /\ Narrative = FixtureNarrative) => extractor.result = <<FixtureRecord>>

\* the same window under a heading with emphasis is extracted in full
C15_EmphasisedFixtureReached ==
  /\ Extracted
  /\ Narrative = "**Best Time to Surf:** " \o FixtureWindow
  /\ extractor.result = <<FixtureRecord>>

\* one of the three heading patterns finds a heading in the text
HeadingFound(text) ==
  \/ primary_match(text).matched
  \/ plural_match(text).matched
  \/ loose_match(text).matched

\* C16: for a text in which none of the three heading patterns finds a
\* heading, the function returns the empty list, and no section, entry or
\* field has been extracted on the way.
C16_NoHeadingNoWindow ==
  (Extracted /\ ~HeadingFound(Narrative)) =>
    /\ extractor.result = <<>>
    /\ extractor.best_times_section = None
    /\ extractor.entries = <<>>
    /\ extractor.best_times = <<>>

\* C16 witness: the fixture window under a heading that is not a "best
\* time to surf" heading has given nothing.
C16_Witness ==
  /\ Extracted
  /\ Narrative = "Surf outlook for today: " \o FixtureWindow
  /\ ~HeadingFound(Narrative)
  /\ extractor.result = <<>>

\* C16 second witness: the words "best time to surf" in a sentence on the
\* last line are no heading for any of the three patterns.
C16_WitnessProse ==
  /\ Extracted
  /\ Narrative = ProseOnly
  /\ ~HeadingFound(Narrative)
  /\ extractor.result = <<>>

\* the narratives with two candidate windows, rated 60 and 90, under a
\* heading that is found
TwoCandidates ==
  /\ HeadingFound(Narrative)
  /\ \E h \in Headings, w \in {TwoWindows, TwoWindowsInline}, e \in Endings :
       Narrative = h \o w \o e

\* C17: of several candidate windows the function returns exactly one, the
\* one with the highest rating: for the windows 6:00 AM - 7:00 AM rated 60
\* and 5:00 PM - 6:00 PM rated 90 it returns the latter with rating 90.
C17_HighestRatedWindow ==
  (Extracted /\ TwoCandidates) =>
    /\ Len(extractor.result) = 1
    /\ extractor.result[1].time = "5:00 PM - 6:00 PM"
    /\ extractor.result[1].rating = Some(90)

\* C18: no exception leaves parse_best_times_from_analysis: for every
\* input the call returns a list, and an input that raises inside the try
\* block (one that is not a text) gives the empty list.
C18_NeverRaises ==
  /\ extractor.raised = None
  /\ extractor.pc = "done" =>
       /\ extractor.result # None
       /\ Len(extractor.result) <= 1
       /\ extractor.exception # None => extractor.result = <<>>
       /\ extractor.ai_analysis_text.kind # "str" => extractor.result = <<>>

\* C18 witness: the call for None has returned the empty list after
\* re.search raised.
C18_Witness ==
  /\ extractor.pc = "done"
  /\ extractor.ai_analysis_text.kind = "None"
  /\ extractor.exception # None
  /\ extractor.result = <<>>

\* "H:MM AM/PM" at position i of a case-folded text: the position after
\* it, 0 if the text at i is not of that form
ClockFormEnd(s, i) ==
  LET h == Run(s, i, Digit, 2)
  IN IF /\ h > i
        /\ At(s, h, ":")
        /\ Run(s, h + 1, Digit, 2) = h + 3
        /\ (At(s, h + 3, " am") \/ At(s, h + 3, " pm"))
     THEN h + 6
     ELSE 0

\* the text is "H:MM AM/PM" or "H:MM AM/PM - H:MM AM/PM"
SupportedTimeRange(t) ==
  LET s == casefold(t)
      e == ClockFormEnd(s, 1)
  IN /\ e # 0
     /\ \/ e = Len(s) + 1
        \/ At(s, e, " - ") /\ ClockFormEnd(s, e + 3) = Len(s) + 1

\* the text holds a time of a supported form
HoldsSupportedTime(t) ==
  \E i \in 1..Len(t) : ClockFormEnd(casefold(t), i) # 0

\* C19: when the section holds no time of the forms "H:MM AM/PM" and
\* "H:MM AM/PM - H:MM AM/PM" the function returns no window, whatever
\* rating, wave, period or wind figures the section has; and the time of a
\* returned window is a text of one of these forms found in the section.
C19_TimeIsMandatory ==
  (Extracted /\ HeadingFound(Narrative)) =>
    /\ ~HoldsSupportedTime(extractor.best_times_section) => extractor.result = <<>>
    /\ extractor.result # <<>> =>
         /\ SupportedTimeRange(extractor.result[1].time)
         /\ Contains(extractor.best_times_section, extractor.result[1].time)

\* a section without digits gives no window: the time pattern needs one
C19_NoDigitNoWindowReached ==
  /\ Extracted
  /\ Narrative = "Best Time to Surf:\n" \o NoFigures
  /\ extractor.result = <<>>

\* ============================================================== surf_api
\* get_surf_data, the handler of GET /api/surf/{beach_name}/{date}
\* (src/surf_api.py).  The handler is modelled as the sequence of the
\* calls it blocks in: the cache service, the surf-data fetcher, the
\* narrative generator, the tide reconciler, the cache service again.
\* ------------------------------------------------ inputs of the handler
RequestedBeaches == {"malibu", "pleasure point", "atlantis"}
RequestedDates == {"2025-01-31", "31/01/2025"}

\* narratives the cache service holds, and the generator writes
GeneratedTexts ==
  { "**Best Time to Surf:** " \o FixtureWindow,
    ProseOnly,
    "Error generating surf conditions: 'break_specific_conditions'",
    "OK" }

\* the values of cached_data['ai_analysis']: a dict with the text (the
\* schema of lines 134-140), or the text itself
CachedAnalyses ==
  {[kind |-> "dict", text |-> t] : t \in {"**Best Time to Surf:** " \o FixtureWindow, ""}}
  \cup {[kind |-> "str", text |-> ProseOnly]}

\* the documents of the cache service; ai_analysis may be missing
CachedDocuments ==
  {[one_sentence_summary |-> "Fun waves early."]}
  \cup {[one_sentence_summary |-> "Fun waves early.", ai_analysis |-> a] :
          a \in CachedAnalyses}

\* answers to the GET of the cache service: an exception, or a status and
\* the json of the body; NoDict is a body that is an empty dict or no dict
CacheResponses ==
  { [exc |-> "ConnectionError", status_code |-> 0, json |-> NoDict],
    [exc |-> None, status_code |-> 404, json |-> NoDict],
    [exc |-> None, status_code |-> 200, json |-> NoDict] }
  \cup {[exc |-> None, status_code |-> 200, json |-> d] : d \in CachedDocuments}

\* what _get_noaa_tide_data returns (data_fetcher.py lines 220-374): an
\* error dict or a dict with tide_conditions
TideResults(beach_name) ==
  { [error |-> "No tide station found for " \o beach_name],
    [error |-> "Failed to fetch predictions for station 9410660: HTTP 503"],
    [error |-> "No tide predictions available for station 9410660"],
    [ tide_conditions |-> <<[time |-> "2025-01-31T23:30:00+00:00", tide |-> 404]>>,
      station_id |-> "9410660", station_name |-> "Station 9410660" ] }

\* what the surf-data fetcher gives the handler at lines 102-110: the
\* current conditions, the hourly forecast and the data for the narrative,
\* or the error of fetch_surf_data
SurfDataResults(beach_name) ==
  { [ current_conditions |-> "{}", hourly_conditions |-> "[]", data |-> "{}",
      error |-> "Beach \"" \o beach_name \o "\" not found in database" ],
    [ current_conditions |-> "{}", hourly_conditions |-> "[]", data |-> "{}",
      error |-> "Network error: ReadTimeout" ],
    [ current_conditions |-> "{wave_height: 4.3}",
      hourly_conditions |-> "[{wave_height: 4.3}]",
      data |-> "{hours: [{waveHeight: {noaa: 1.3}}]}", error |-> None ] }

\* what get_one_sentence_summary returns: the generated sentence, or the
\* text of its except branch (summarizer.py lines 89 and 91)
GeneratedSummaries ==
  { "Fun waves early.", "Error generating summary: 503 UNAVAILABLE" }

\* answers to the POST of the cache service
CacheSaveResponses ==
  { [exc |-> "ConnectionError", status_code |-> 0],
    [exc |-> None, status_code |-> 200],
    [exc |-> None, status_code |-> 500] }

\* ----------------------------------------------------------- the handler
\* the frame of a request at the entry of get_surf_data
NewRequest(beach_name, date) ==
  [ pc |-> "start",
    beach_name |-> beach_name,
    date |-> date,
    path |-> "none",                  \* "hit" or "miss" of the cache service
    cached_data |-> NoDict,
    surf |-> NoDict,                  \* what the surf-data fetcher gave
    ai_analysis_text |-> None,
    break_specific_conditions |-> None,
    one_sentence_summary |-> None,
    best_surf_times |-> <<>>,
    tide_result |-> NoDict,           \* history: what the tide call returned
    tide_data |-> NoDict,
    response |-> NoDict,              \* the dict returned
    http_error |-> NoDict ]           \* the HTTPException raised

HTTPException(status_code, detail) == [status_code |-> status_code, detail |-> detail]

\* lines 166-168: except Exception as e: raise HTTPException(500, ...)
internal_error(req, e) ==
  [req EXCEPT !.pc = "done",
              !.http_error = HTTPException(500, "Internal server error: " \o e)]

\* variant: the tide data of the response is what the tide call returned
tide_data_as_returned(tide_result) == tide_result

\* lines 66-72 and 118-124: the tide data of the response, {} on an error
tide_data_of(tide_result) ==
  IF "error" \in DOMAIN tide_result THEN <<>> ELSE tide_result

\* lines 75-76: the narrative of a cached document
cached_analysis(cached_data) ==
  IF "ai_analysis" \in DOMAIN cached_data THEN cached_data.ai_analysis.text ELSE ""

\* lines 84-94 and 152-162: the dict returned
response_of(req) ==
  [ beachName |-> req.beach_name,
    date |-> req.date,
    currentConditions |-> IF req.path = "hit" THEN "{}" ELSE req.surf.current_conditions,
    hourlyForecast |-> IF req.path = "hit" THEN "[]" ELSE req.surf.hourly_conditions,
    bestSurfTimes |-> req.best_surf_times,
    breakSpecificConditions |->
      IF req.path = "hit" THEN "" ELSE req.break_specific_conditions,
    aiAnalysis |-> req.ai_analysis_text,
    oneSentenceSummary |->
      IF req.path = "hit" THEN req.cached_data.one_sentence_summary
      ELSE req.one_sentence_summary,
    tideData |-> req.tide_data ]

\* lines 49-59: the date check, up to the GET of the cache service
GetSurfData ==
  /\ request.pc \in {"idle", "done"}
  /\ \E beach_name \in RequestedBeaches, date \in RequestedDates :
       LET req == NewRequest(beach_name, date)
       IN IF strptime_date(date) = NoTime
          THEN request' = [req EXCEPT
                 !.pc = "done",
                 !.http_error = HTTPException(400, "Invalid date format. Use YYYY-MM-DD")]
          ELSE request' = [req EXCEPT !.pc = "cache_get"]
  /\ UNCHANGED <<tide_vars, extractor, threads, fetch>>

\* lines 59-62 and 95-96: the answer to the GET of the cache service
CacheGetResponse ==
  /\ request.pc = "cache_get"
  /\ \E resp \in CacheResponses :
       IF resp.exc = None /\ resp.status_code = 200 /\ resp.json # NoDict
       THEN request' = [request EXCEPT
              !.pc = "hit_tide", !.path = "hit", !.cached_data = resp.json]
       ELSE request' = [request EXCEPT !.pc = "fetch", !.path = "miss"]
  /\ UNCHANGED <<tide_vars, extractor, threads, fetch>>

\* lines 66-94: the cache-hit path from the tide call to the return
CacheHitReturn ==
  /\ request.pc = "hit_tide"
  /\ \E tide_result \in TideResults(request.beach_name) :
       LET ai_analysis == cached_analysis(request.cached_data)
           req == [request EXCEPT
                     !.tide_result = tide_result,
                     !.tide_data = tide_data_of(tide_result),
                     !.ai_analysis_text = ai_analysis,
                     !.best_surf_times =
                        IF ai_analysis # ""
                        THEN parse_best_times_from_analysis(ai_analysis)
                        ELSE <<>>]
       IN request' = [req EXCEPT !.pc = "done", !.response = response_of(req)]
  /\ UNCHANGED <<tide_vars, extractor, threads, fetch>>

\* lines 102-110: the three calls of the surf-data fetcher
FetchFreshData ==
  /\ request.pc = "fetch"
  /\ \E surf \in SurfDataResults(request.beach_name) :
       request' = [request EXCEPT !.pc = "narrative", !.surf = surf]
  /\ UNCHANGED <<tide_vars, extractor, threads, fetch>>

\* lines 113-115: get_surf_conditions returns one text (summarizer.py
\* lines 59 and 61), which line 113 unpacks into two names: a text of two
\* characters gives one character to each, any other raises ValueError
GenerateAnalysis ==
  /\ request.pc = "narrative"
  /\ \E text \in GeneratedTexts, summary \in GeneratedSummaries :
       IF Len(text) = 2
       THEN request' = [request EXCEPT
              !.pc = "miss_tide",
              !.one_sentence_summary = summary,
              !.ai_analysis_text = Ch(text, 1),
              !.break_specific_conditions = Ch(text, 2),
              !.best_surf_times = parse_best_times_from_analysis(Ch(text, 1))]
       ELSE request' = internal_error(request,
              IF Len(text) > 2 THEN "too many values to unpack (expected 2)"
              ELSE "not enough values to unpack (expected 2)")
  /\ UNCHANGED <<tide_vars, extractor, threads, fetch>>

\* lines 118-124 and 145: the tide call, up to the POST to the cache service
CacheMissTide ==
  /\ request.pc = "miss_tide"
  /\ \E tide_result \in TideResults(request.beach_name) :
       request' = [request EXCEPT
                     !.pc = "cache_post",
                     !.tide_result = tide_result,
                     !.tide_data = tide_data_of(tide_result)]
  /\ UNCHANGED <<tide_vars, extractor, threads, fetch>>

\* lines 145-162: the answer to the POST, whatever it is, and the return
CacheMissReturn ==
  /\ request.pc = "cache_post"
  /\ \E resp \in CacheSaveResponses :
       request' = [request EXCEPT !.pc = "done", !.response = response_of(request)]
  /\ UNCHANGED <<tide_vars, extractor, threads, fetch>>

ApiInit ==
  /\ station_metadata_cache = <<>>
  /\ next_oid = 1
  /\ returned = <<>>
  /\ pc = "idle"
  /\ call = NewCall("none", None, [kind |-> "None"], None)
  /\ extractor = NoDict
  /\ threads = NoDict
  /\ fetch = NoDict
  /\ request = [NewRequest(None, None) EXCEPT !.pc = "idle"]

ApiNext ==
  \/ GetSurfData
  \/ CacheGetResponse
  \/ CacheHitReturn
  \/ FetchFreshData
  \/ GenerateAnalysis
  \/ CacheMissTide
  \/ CacheMissReturn

ApiSpec == ApiInit /\ [][ApiNext]_vars

\* ------------------------------------------------------------ claim C20

\* the handler has answered the request
RequestAnswered == request.pc = "done"

\* C20: a request for surf data with a well-formed date always succeeds:
\* on the cache-hit and on the cache-miss path, whatever the tide services,
\* the narrative generator and the cache service do, get_surf_data returns
\* a response record and never an internal-server-error.
C20_WellFormedDateAlwaysSucceeds ==
  (RequestAnswered /\ strptime_date(request.date) # NoTime)
    => (request.response # NoDict /\ request.http_error = NoDict)

\* ===================================================== claims C21 .. C24

\* position of a service in the order metadata, offsets, predictions
ServiceRank(service) ==
  CASE service = "metadata" -> 1
    [] service = "offsets" -> 2
    [] service = "predictions" -> 3

\* the record the resolver of the call has built or returned
ResolverRecord == IF call.resolved THEN call.station_metadata ELSE call.metadata

\* C21: one call of _get_noaa_tide_data sends its requests in the order
\* metadata, offsets, predictions and each of them at most once, so no
\* request is repeated after a timeout or a non-success status; it sends no
\* metadata request when the station is cached, and an offsets request only
\* for a record of type "S".
C21_BoundedOrderedRequests ==
  (call.op = "tide") =>
    /\ Len(call.requests) <= 3
    /\ \A i, j \in 1..Len(call.requests) :
         i < j => ServiceRank(call.requests[i].service)
                    < ServiceRank(call.requests[j].service)
    /\ (call.prior # NoDict) => ResolverRequests = {}
    /\ \A i \in 1..Len(call.requests) :
         call.requests[i].service = "offsets" =>
           (ResolverRecord # NoDict /\ ResolverRecord.type = "S")

\* C21 witness: a call has sent the three requests, the predictions request
\* was answered with a non-success status, and the call has ended.
C21_Witness ==
  /\ Finished
  /\ Len(call.requests) = 3
  /\ call.answer # NoDict
  /\ call.answer.exc = None
  /\ call.answer.status_code = 503
  /\ IsError(call.result)

\* C21 witness: the metadata request timed out and the call went on to the
\* one predictions request without asking for the metadata again.
C21_WitnessMetadataTimeout ==
  /\ Finished
  /\ Len(call.requests) = 2
  /\ call.requests[1].service = "metadata"
  /\ call.station_metadata = NoDict
  /\ call.requests[2].service = "predictions"

\* the calendar day of a text that starts with YYYY-MM-DD, as YYYYMMDD
DayOfStamp(text) == SubSeq(text, 1, 4) \o SubSeq(text, 6, 7) \o SubSeq(text, 9, 10)

\* the prediction list the predictions service answered with
Upstream == call.predictions_list[1]

\* the call ended with a tide series
Succeeded == Finished /\ "tide_conditions" \in DOMAIN call.result

\* every upstream prediction lies on the day the call asked for
UpstreamOnTargetDate ==
  \A i \in 1..Len(Upstream) : DayOfStamp(Upstream[i].t) = call.date_str

SecondsOfStamp(text) ==
  LET mo == int(SubSeq(text, 6, 7))
      d == int(SubSeq(text, 9, 10))
      hh == int(SubSeq(text, 12, 13))
      mi == int(SubSeq(text, 15, 16))
      ss == IF Len(text) >= 19 THEN int(SubSeq(text, 18, 19)) ELSE 0
  IN (((IF mo = 1 THEN d ELSE 31 + d) * 24 + hh) * 60 + mi) * 60 + ss

\* the upstream predictions are in strictly increasing time order
UpstreamStrictlyIncreasing ==
  \A i \in 1..(Len(Upstream) - 1) :
    SecondsOfStamp(Upstream[i].t) < SecondsOfStamp(Upstream[i + 1].t)

\* C23: when the upstream predictions are in strictly increasing time
\* order, the points of the returned series are in non-decreasing order of
\* their timestamps, for harmonic stations and for subordinate stations
\* whatever the offsets, the time offsets of high and low tides included.
C23_OrderedByTime ==
  (Succeeded /\ UpstreamStrictlyIncreasing) =>
    \A i \in 1..(Len(call.result.tide_conditions) - 1) :
      SecondsOfStamp(call.result.tide_conditions[i].time)
        <= SecondsOfStamp(call.result.tide_conditions[i + 1].time)

\* a text has the form YYYY-MM-DD
IsoDateText(text) ==
  /\ Len(text) = 10
  /\ \A i \in {1, 2, 3, 4, 6, 7, 9, 10} : Ch(text, i) \in Digit
  /\ Ch(text, 5) = "-"
  /\ Ch(text, 8) = "-"

\* the date-only part of the target date of the call, as YYYYMMDD
TargetDay ==
  IF call.target_date.kind = "str"
  THEN DayOfStamp(call.target_date.text)
  ELSE ToString(call.target_date.dt.y)
       \o (IF call.target_date.dt.mo < 10 THEN "0" ELSE "")
       \o ToString(call.target_date.dt.mo)
       \o (IF call.target_date.dt.d < 10 THEN "0" ELSE "")
       \o ToString(call.target_date.dt.d)

\* the call has a station and was given a target date
DatedCall ==
  call.op = "tide" /\ Truthy(call.station_id) /\ call.target_date.kind # "None"

\* the target date of the call is one the claim says is accepted
AcceptableDate ==
  \/ call.target_date.kind = "datetime"
  \/ call.target_date.kind = "str" /\ IsoDateText(call.target_date.text)

\* C24: _get_noaa_tide_data accepts a target_date that is a YYYY-MM-DD
\* string or a datetime and asks for the predictions of its date-only part;
\* a target_date string of any other form ends the call with an error
\* result before any request, for the metadata or the predictions, is sent.
C24_TargetDateForms ==
  DatedCall =>
    IF AcceptableDate
    THEN /\ call.requests # <<>>
         /\ \A i \in 1..Len(call.requests) :
              call.requests[i].service = "predictions" =>
                /\ call.requests[i].begin_date = TargetDay
                /\ call.requests[i].end_date = TargetDay
    ELSE /\ call.requests = <<>>
         /\ pc = "idle"
         /\ IsError(call.result)

\* the day of datetime.now()
Today == "20250131"

\* C24, amended: a YYYY-MM-DD string or a datetime is accepted and the
\* predictions of its date-only part are asked for; the empty string is
\* accepted too and stands, like None, for the current day; a string of any
\* other form ends the call with an error result before any request is sent.
C24_NonEmptyOtherFormsRejected ==
  DatedCall =>
    IF AcceptableDate \/ call.target_date.text = ""
    THEN /\ call.requests # <<>>
         /\ \A i \in 1..Len(call.requests) :
              call.requests[i].service = "predictions" =>
                /\ call.requests[i].begin_date = (IF AcceptableDate THEN TargetDay ELSE Today)
                /\ call.requests[i].end_date = (IF AcceptableDate THEN TargetDay ELSE Today)
    ELSE /\ call.requests = <<>>
         /\ pc = "idle"
         /\ IsError(call.result)

\* C24 witness: a datetime with a time of day was given and the predictions
\* of its day have been asked for.
C24_Witness ==
  /\ DatedCall
  /\ call.target_date.kind = "datetime"
  /\ call.target_date.dt.hh # 0
  /\ Len(call.requests) >= 1
  /\ call.requests[Len(call.requests)].service = "predictions"
  /\ call.requests[Len(call.requests)].begin_date = "20250201"

\* C24 witness: a string that is not of the form YYYY-MM-DD was given while
\* the station is cached, and the call has ended with an error.
C24_WitnessRejected ==
  /\ call.target_date.text # ""
  /\ DatedCall
  /\ ~AcceptableDate
  /\ call.station_id \in DOMAIN station_metadata_cache
  /\ IsError(call.result)

\* C24 witness: the empty string was given and the predictions of the
\* current day have been asked for.
C24_WitnessEmptyString ==
  /\ DatedCall
  /\ call.target_date.kind = "str"
  /\ call.target_date.text = ""
  /\ Len(call.requests) >= 1
  /\ call.requests[Len(call.requests)].service = "predictions"
  /\ call.requests[Len(call.requests)].begin_date = Today

\* ============================================================ claim C25

\* the window the extractor has returned has a rating
RatedWindowReturned ==
  /\ Extracted
  /\ Len(extractor.result) = 1
  /\ extractor.result[1].rating # Nothing

\* the number n is written after one of the labels rating, score, rated
\* (and the colons and blanks that follow it) in the text s
FollowsRatingLabel(s, n) ==
  \E k \in 1..Len(s), w \in {"rating", "score", "rated"} :
    /\ At(casefold(s), k, w)
    /\ At(s, Star(s, k + Len(w), ColonOrSpace), ToString(n))

\* C25: whenever the extractor returns a window whose rating is not null,
\* the rating is an integer of 0..100, and it is the number that follows a
\* rating, score or rated label in the section.
C25_RatingInRange ==
  RatedWindowReturned =>
    /\ extractor.result[1].rating[1] \in 0..100
    /\ FollowsRatingLabel(extractor.best_times_section, extractor.result[1].rating[1])

\* ============================================================ claim C26

\* the handler has returned a response after a tide call that failed
TideFailedResponse ==
  /\ RequestAnswered
  /\ request.response # NoDict
  /\ request.tide_result # NoDict
  /\ "error" \in DOMAIN request.tide_result

\* the results of the tide call that carry a tide series
TideSuccesses ==
  {t \in TideResults(request.beach_name) : "tide_conditions" \in DOMAIN t}

\* the response the handler builds from the frame of the request when the
\* tide call returns t instead of what it returned
ResponseWithTide(t) ==
  response_of([request EXCEPT !.tide_result = t, !.tide_data = tide_data_of(t)])

C26_WitnessMiss ==
  /\ TideFailedResponse
  /\ request.path = "miss"
  /\ Contains(request.tide_result.error, "No tide predictions available")

\* ============================== concurrent calls of _get_station_metadata
\* The fetcher is one module-level object (surf_api.py line 37) whose cache
\* dict has no lock; two callers run _get_station_metadata at the same
\* time, each blocked in its own requests.get while the other goes on.
Threads == {1, 2}

\* the frame of a caller before its call
NewThread ==
  [ pc |-> "idle",
    station_id |-> None,
    missed |-> FALSE,        \* history: line 165 did not find the station
    metadata |-> NoDict,     \* the dict under construction
    answers |-> <<>>,        \* history: the answers to the caller's requests
    result |-> NoDict ]      \* the value returned, NoDict for None

\* lines 164-171: the cache test, then the return of the cached dict or the
\* metadata request
ThreadEnter(t) ==
  /\ threads[t].pc = "idle"
  /\ \E s \in StationIds :
       IF cache_hit(station_metadata_cache, s)
       THEN threads' = [threads EXCEPT ![t] =
              [@ EXCEPT !.pc = "done", !.station_id = s,
                        !.result = station_metadata_cache[s]]]
       ELSE threads' = [threads EXCEPT ![t] =
              [@ EXCEPT !.pc = "metadata", !.station_id = s, !.missed = TRUE]]
  /\ UNCHANGED <<tide_vars, extractor, request, fetch>>

\* lines 173-185 and 199-205: the answer to the caller's metadata request
ThreadMetadataResponse(t) ==
  /\ threads[t].pc = "metadata"
  /\ \E resp \in MetadataResponses(threads[t].station_id) :
       LET th == [threads[t] EXCEPT !.answers = Append(@, resp)]
       IN IF resp.exc # None \/ resp.status_code # 200 \/ Len(resp.stations) = 0
          THEN /\ station_metadata_cache' =
                    cache_after_failure(station_metadata_cache, th.station_id)
               /\ threads' = [threads EXCEPT ![t] = [th EXCEPT !.pc = "done"]]
               /\ UNCHANGED next_oid
          ELSE LET metadata == new_metadata(resp.stations[1], next_oid)
               IN /\ next_oid <= MaxObjects
                  /\ next_oid' = next_oid + 1
                  /\ IF metadata.type = "S" /\ Truthy(metadata.tidepredoffsets_url)
                     THEN /\ threads' = [threads EXCEPT ![t] =
                                 [th EXCEPT !.pc = "offsets", !.metadata = metadata]]
                          /\ UNCHANGED station_metadata_cache
                     ELSE /\ station_metadata_cache' =
                               cache_store(station_metadata_cache, th.station_id, metadata)
                          /\ threads' = [threads EXCEPT ![t] =
                                 [th EXCEPT !.pc = "done", !.result = metadata]]
  /\ UNCHANGED <<returned, pc, call, extractor, request, fetch>>

\* lines 186-201: the answer to the caller's offsets request
ThreadOffsetsResponse(t) ==
  /\ threads[t].pc = "offsets"
  /\ \E resp \in OffsetsResponses :
       LET metadata == with_offsets(threads[t].metadata, resp)
       IN /\ station_metadata_cache' =
               cache_store(station_metadata_cache, threads[t].station_id, metadata)
          /\ threads' = [threads EXCEPT ![t] =
               [@ EXCEPT !.pc = "done", !.metadata = NoDict, !.result = metadata,
                         !.answers = Append(@, resp)]]
  /\ UNCHANGED <<next_oid, returned, pc, call, extractor, request, fetch>>

ConcurrentInit ==
  /\ station_metadata_cache = <<>>
  /\ next_oid = 1
  /\ returned = <<>>
  /\ pc = "idle"
  /\ call = NewCall("none", None, [kind |-> "None"], None)
  /\ extractor = NoDict
  /\ request = NoDict
  /\ fetch = NoDict
  /\ threads = [t \in Threads |-> NewThread]

ConcurrentNext ==
  \E t \in Threads :
    \/ ThreadEnter(t)
    \/ ThreadMetadataResponse(t)
    \/ ThreadOffsetsResponse(t)

ConcurrentSpec == ConcurrentInit /\ [][ConcurrentNext]_vars

\* ============================================================ claim C27

\* a metadata dict as a value: its items without the object identity
ValueOf(m) == IF m = NoDict THEN NoDict ELSE [k \in DOMAIN m \ {"oid"} |-> m[k]]

\* two callers have resolved the same station, which neither found cached
ConcurrentMisses(t, u) ==
  /\ t # u
  /\ threads[t].pc = "done"
  /\ threads[u].pc = "done"
  /\ threads[t].station_id = threads[u].station_id
  /\ threads[t].missed
  /\ threads[u].missed

\* the cache holds for the station of caller t the value the caller
\* returned, and no entry when the caller returned None
CacheAgrees(t) ==
  IF threads[t].result = NoDict
  THEN threads[t].station_id \notin DOMAIN station_metadata_cache
  ELSE /\ threads[t].station_id \in DOMAIN station_metadata_cache
       /\ ValueOf(station_metadata_cache[threads[t].station_id]) = ValueOf(threads[t].result)

\* C27: every interleaving of two concurrent calls of
\* _get_station_metadata for the same station that is not cached leaves the
\* cache holding the same entry for it, and both calls return equal
\* metadata.
C27_ConcurrentResolvesAgree ==
  \A t, u \in Threads :
    ConcurrentMisses(t, u) =>
      /\ ValueOf(threads[t].result) = ValueOf(threads[u].result)
      /\ CacheAgrees(t)

\* C27, amended: two concurrent calls for the same uncached station that
\* get the same answers from the metadata service return equal metadata,
\* and the cache holds that entry (no entry when both return None).
\* A caller that found the station cached returns the very dict the other
\* caller stored and returned.
C27_SameAnswersAgree ==
  \A t, u \in Threads :
    /\ (ConcurrentMisses(t, u) /\ threads[t].answers = threads[u].answers) =>
         /\ ValueOf(threads[t].result) = ValueOf(threads[u].result)
         /\ CacheAgrees(t)
    /\ ( /\ threads[t].pc = "done"
         /\ threads[u].pc = "done"
         /\ threads[t].station_id = threads[u].station_id
         /\ threads[t].missed
         /\ ~threads[u].missed ) =>
         /\ threads[u].result = threads[t].result
         /\ station_metadata_cache[threads[u].station_id] = threads[u].result

\* C27 witness: both callers missed, each fetched the record and its
\* offsets with the same answers, and each returned a dict of its own.
C27_Witness ==
  /\ ConcurrentMisses(1, 2)
  /\ threads[1].answers = threads[2].answers
  /\ Len(threads[1].answers) = 2
  /\ threads[1].result # NoDict
  /\ threads[1].result.oid # threads[2].result.oid
  /\ "tidepredoffsets" \in DOMAIN threads[1].result

\* C27 witness of the difference: both callers missed, the metadata request
\* of one failed and the other returned a dict, which the cache holds.
C27_WitnessOneFailed ==
  /\ ConcurrentMisses(1, 2)
  /\ threads[1].result = NoDict
  /\ threads[2].result # NoDict
  /\ threads[1].station_id \in DOMAIN station_metadata_cache

\* ============================================================ claim C28

\* the two shapes of a result of _get_noaa_tide_data
ErrorShape(result) ==
  /\ "error" \in DOMAIN result
  /\ "tide_conditions" \notin DOMAIN result

SuccessShape(result) ==
  /\ "tide_conditions" \in DOMAIN result
  /\ "station_id" \in DOMAIN result
  /\ "error" \notin DOMAIN result

\* C28: every result of _get_noaa_tide_data is an error result (key
\* 'error', no 'tide_conditions') or a success result (keys
\* 'tide_conditions' and 'station_id', no 'error'), never both; a success
\* result has at least one point, as many points as the upstream list, and
\* a 'reference_station_id' exactly when the subordinate branch was taken.
C28_ResultShapes ==
  Finished =>
    /\ call.result # NoDict
    /\ ErrorShape(call.result) # SuccessShape(call.result)
    /\ SuccessShape(call.result) =>
         /\ Len(call.predictions_list) = 1
         /\ Len(call.result.tide_conditions) >= 1
         /\ Len(call.result.tide_conditions) = Len(Upstream)
         /\ ("reference_station_id" \in DOMAIN call.result)
              <=> (call.branch = "subordinate")

\* C28 witness: a subordinate call has returned two points with the id of
\* its reference station.
C28_Witness ==
  /\ Finished
  /\ SuccessShape(call.result)
  /\ call.branch = "subordinate"
  /\ Len(call.result.tide_conditions) = 2
  /\ call.result.reference_station_id = call.reference_station_id

\* C28 witness: a harmonic call has returned a success result without
\* reference station.
C28_WitnessHarmonic ==
  /\ Finished
  /\ SuccessShape(call.result)
  /\ call.branch = "harmonic"
  /\ "reference_station_id" \notin DOMAIN call.result

\* C28 witness: an empty upstream list has given an error result.
C28_WitnessEmptyList ==
  /\ Finished
  /\ Len(call.predictions_list) = 1
  /\ Len(Upstream) = 0
  /\ ErrorShape(call.result)

\* ========================================================= fetch_surf_data
\* The file cache of the surf-data fetcher.  `fetch` holds the cache file,
\* the clock and the frame of the latest call of fetch_surf_data.

\* line 36
cache_expiry == 86400

\* lines 61-107: entries of self.beach_coordinates in the order of the dict,
\* each coordinate as str() prints it in the cache key
beach_coordinates ==
  << [key |-> "pleasure point", lat |-> "36.9514", lng |-> "-122.0256"],
     [key |-> "malibu", lat |-> "34.0259", lng |-> "-118.7798"],
     [key |-> "trestles", lat |-> "33.3703", lng |-> "-117.5681"],
     [key |-> "san onofre", lat |-> "33.3703", lng |-> "-117.5681"] >>

NoCoords == [none |-> TRUE]

\* beach_key in key, key in beach_key
IsSubstring(sub, s) == sub = "" \/ Contains(s, sub)

\* lines 137-147: the exact match, then the first partial match in the
\* order of the dict
get_beach_coordinates(beach_name) ==
  LET beach_key == strip(lower(beach_name))
      exact == {i \in 1..Len(beach_coordinates) : beach_coordinates[i].key = beach_key}
      partial == {i \in 1..Len(beach_coordinates) :
                    \/ IsSubstring(beach_key, beach_coordinates[i].key)
                    \/ IsSubstring(beach_coordinates[i].key, beach_key)}
      first(S) == CHOOSE i \in S : \A j \in S : i <= j
      coords(i) == [lat |-> beach_coordinates[i].lat, lng |-> beach_coordinates[i].lng]
  IN IF exact # {} THEN coords(first(exact))
     ELSE IF partial # {} THEN coords(first(partial))
     ELSE NoCoords

\* str(target_date) in the f-string of line 402
date_text(td) == IF td.kind = "None" THEN None ELSE td.text

\* lines 402-403: the cache key
cache_key_of(coords, td) ==
  LET date_suffix == IF Truthy(date_text(td)) THEN "_" \o td.text ELSE ""
  IN coords.lat \o "," \o coords.lng \o date_suffix

\* the cache file: whether it exists and the dict it holds
NoFile == [exists |-> FALSE, entries |-> <<>>]

\* lines 109-117: the dict of the file, {} when there is no file
load_cache(file) == IF file.exists THEN file.entries ELSE <<>>

\* variant: only the new entry is written
save_cache_entry_only(file, cache, cache_key, opened) ==
  IF opened THEN [exists |-> TRUE, entries |-> (cache_key :> cache[cache_key])] ELSE file

\* lines 119-125 as called at line 463: the loaded dict with the new entry
\* replaces the content of the file; when open() raises, the warning is
\* printed and the file is as before
save_cache(file, cache, cache_key, opened) ==
  IF opened THEN [exists |-> TRUE, entries |-> cache] ELSE file

\* variant: an entry whose age equals cache_expiry is still served
is_fresh_inclusive(cache, cache_key, current_time) ==
  /\ cache_key \in DOMAIN cache
  /\ current_time - cache[cache_key].timestamp <= cache_expiry

\* lines 406-408
is_fresh(cache, cache_key, current_time) ==
  /\ cache_key \in DOMAIN cache
  /\ current_time - cache[cache_key].timestamp < cache_expiry

\* lines 393-396
unknown_beach_result(beach_name) ==
  [ error |-> "Beach \"" \o beach_name
              \o "\" not found in database. Please provide coordinates.",
    beach_name |-> beach_name ]

\* lines 409-416
cached_result(beach_name, coords, cached_data) ==
  [ beach_name |-> beach_name, coordinates |-> coords,
    data |-> cached_data.data,
    tide_data |-> Get(cached_data, "tide_data", <<>>),
    cached |-> TRUE,
    timestamp |-> cached_data.timestamp ]

\* lines 465-472
fresh_result(beach_name, coords, data, tide_data, current_time) ==
  [ beach_name |-> beach_name, coordinates |-> coords,
    data |-> data, tide_data |-> tide_data,
    cached |-> FALSE,
    timestamp |-> current_time ]

\* lines 474-491: the three error results after the coordinates are known
failure_result(beach_name, coords, text) ==
  [ error |-> text, beach_name |-> beach_name, coordinates |-> coords ]

\* time.time() at the moments the model visits, in seconds: 09:15:00 of
\* 2025-01-31, and 09:14:59 and 09:15:00 of the next day
FetchClock == {1738314900, 1738401299, 1738401300}

\* datetime.now() at those moments
now_of(t) ==
  CASE t = 1738314900 -> DateTime(2025, 1, 31, 9, 15, 0)
    [] t = 1738401299 -> DateTime(2025, 2, 1, 9, 14, 59)
    [] t = 1738401300 -> DateTime(2025, 2, 1, 9, 15, 0)

\* the calls of fetch_surf_data: beach_name, the optional pair lat, lng and
\* target_date
FetchCalls ==
  { [beach_name |-> "pleasure point", coords |-> NoCoords, target_date |-> d] :
      d \in { [kind |-> "None"],
              [kind |-> "str", text |-> "2025-01-31"],
              [kind |-> "str", text |-> "31/01/2025"],
              [kind |-> "str", text |-> ""] } }
  \cup
  { [beach_name |-> b, coords |-> NoCoords, target_date |-> [kind |-> "None"]] :
      b \in {" Malibu", "atlantis"} }
  \cup
  { [beach_name |-> "atlantis", coords |-> [lat |-> "34.0259", lng |-> "-118.7798"],
     target_date |-> [kind |-> "None"]] }

\* what the tide call of line 454 returns: an error dict or a tide series
FetchTideResults(beach_name) ==
  { r \in TideResults(beach_name) :
      \/ "tide_conditions" \in DOMAIN r
      \/ r.error = "No tide station found for " \o beach_name }

\* answers to the GET of line 448.  A body that is not JSON makes
\* response.json() raise at line 451.
StormglassResponses ==
  { [exc |-> "ConnectionError", status_code |-> 0, text |-> "", json |-> None],
    [exc |-> None, status_code |-> 402, text |-> "quota exceeded", json |-> None],
    [exc |-> None, status_code |-> 200, text |-> "<html>", json |-> None],
    [exc |-> None, status_code |-> 200, text |-> "{}",
     json |-> "{hours: [{waveHeight: {noaa: 1.3}}]}"] }

\* line 451 on a body that is not JSON: the exception of response.json()
\* is a RequestException in requests 2.27 and later and a plain ValueError
\* before, so either except branch may take it
InvalidJsonErrors ==
  { "Network error: Expecting value: line 1 column 1 (char 0)",
    "Unexpected error: Expecting value: line 1 column 1 (char 0)" }

\* the frame of fetch_surf_data before any call, on the file and at the time
NewFetch(file, now) ==
  [ file |-> file, now |-> now, pc |-> "idle",
    returned |-> FALSE,
    beach_name |-> None, target_date |-> [kind |-> "None"],
    coords |-> NoCoords,
    cache |-> <<>>, cache_key |-> None, current_time |-> now,
    file0 |-> file,            \* history: the file at the entry of the call
    requests |-> <<>>,         \* history: the Stormglass requests of the call
    response |-> NoDict,       \* history: the answer to the request
    tide_calls |-> 0,          \* history: calls of _get_noaa_tide_data
    data |-> None,
    result |-> NoDict ]

\* the return of the call with a result
fetch_return(f, result) == [f EXCEPT !.pc = "idle", !.returned = TRUE, !.result = result]

\* lines 389-448: from the entry to the first return or to the request
FetchSurfData ==
  /\ fetch.pc = "idle"
  /\ \E args \in FetchCalls :
       LET f0 == [NewFetch(fetch.file, fetch.now) EXCEPT
                    !.beach_name = args.beach_name,
                    !.target_date = args.target_date]
           coords == IF args.coords = NoCoords
                     THEN get_beach_coordinates(args.beach_name)
                     ELSE args.coords
           cache == load_cache(fetch.file)
           cache_key == cache_key_of(coords, args.target_date)
           f1 == [f0 EXCEPT !.coords = coords, !.cache = cache, !.cache_key = cache_key]
           day == parse_target_date(args.target_date, now_of(fetch.now))
       IN IF coords = NoCoords
          THEN fetch' = fetch_return(f0, unknown_beach_result(args.beach_name))
          ELSE IF is_fresh(cache, cache_key, f1.current_time)
          THEN fetch' = fetch_return(f1,
                 cached_result(args.beach_name, coords, cache[cache_key]))
          ELSE IF day = NoTime
          THEN fetch' = fetch_return(f1,
                 failure_result(args.beach_name, coords,
                   "Unexpected error: time data '" \o args.target_date.text
                   \o "' does not match format '%Y-%m-%d'"))
          ELSE fetch' = [f1 EXCEPT
                 !.pc = "stormglass",
                 !.requests = <<[service |-> "stormglass", lat |-> coords.lat,
                                 lng |-> coords.lng, day |-> strftime_compact(day)]>>]
  /\ UNCHANGED <<tide_vars, extractor, request, threads>>

\* lines 448-451 and 473-491: the answer to the Stormglass request
StormglassResponse ==
  /\ fetch.pc = "stormglass"
  /\ \E resp \in StormglassResponses :
       LET f == [fetch EXCEPT !.response = resp]
       IN IF resp.exc # None
          THEN fetch' = fetch_return(f,
                 failure_result(f.beach_name, f.coords, "Network error: " \o resp.exc))
          ELSE IF resp.status_code # 200
          THEN fetch' = fetch_return(f,
                 failure_result(f.beach_name, f.coords,
                   "API request failed with status " \o ToString(resp.status_code)
                   \o ": " \o resp.text))
          ELSE IF resp.json = None
          THEN \E text \in InvalidJsonErrors :
                 fetch' = fetch_return(f, failure_result(f.beach_name, f.coords, text))
          ELSE fetch' = [f EXCEPT !.pc = "tide", !.data = resp.json]
  /\ UNCHANGED <<tide_vars, extractor, request, threads>>

\* lines 454-472: the tide call, the write of the cache file and the return
FetchTideReturn ==
  /\ fetch.pc = "tide"
  /\ \E tide_data \in FetchTideResults(fetch.beach_name), opened \in BOOLEAN :
       LET cache_data == [data |-> fetch.data, tide_data |-> tide_data,
                          timestamp |-> fetch.current_time]
           cache == [k \in DOMAIN fetch.cache \cup {fetch.cache_key} |->
                       IF k = fetch.cache_key THEN cache_data ELSE fetch.cache[k]]
           f == [fetch EXCEPT
                   !.tide_calls = @ + 1,
                   !.cache = cache,
                   !.file = save_cache(fetch.file, cache, fetch.cache_key, opened)]
       IN fetch' = fetch_return(f,
            fresh_result(f.beach_name, f.coords, f.data, tide_data, f.current_time))
  /\ UNCHANGED <<tide_vars, extractor, request, threads>>

\* time passes between two calls
FetchTick ==
  /\ fetch.pc = "idle"
  /\ \E t \in FetchClock :
       /\ t > fetch.now
       /\ fetch' = [fetch EXCEPT !.now = t]
  /\ UNCHANGED <<tide_vars, extractor, request, threads>>

\* a fetcher that has made no call, without cache file
FetchInit ==
  /\ station_metadata_cache = <<>>
  /\ next_oid = 1
  /\ returned = <<>>
  /\ pc = "idle"
  /\ call = NewCall("none", None, [kind |-> "None"], None)
  /\ extractor = NoDict
  /\ request = NoDict
  /\ threads = NoDict
  /\ fetch = NewFetch(NoFile, 1738314900)

FetchNext ==
  \/ FetchSurfData
  \/ StormglassResponse
  \/ FetchTideReturn
  \/ FetchTick

FetchSpec == FetchInit /\ [][FetchNext]_vars

\* ============================================================ claim C29

\* a call of fetch_surf_data has returned, the coordinates being known
FetchReturned == fetch.pc = "idle" /\ fetch.returned /\ fetch.coords # NoCoords

\* the entry the file held for the key at the entry of the call
EntryAtCall == fetch.file0.entries[fetch.cache_key]

\* at the entry of the call the file held an entry for the key whose age
\* was below 86400 seconds
FreshAtCall ==
  /\ fetch.file0.exists
  /\ fetch.cache_key \in DOMAIN fetch.file0.entries
  /\ fetch.current_time - EntryAtCall.timestamp < 86400

\* the call returned the entry without any request
ServedFromCache ==
  /\ "cached" \in DOMAIN fetch.result
  /\ fetch.result.cached = TRUE
  /\ fetch.result.data = EntryAtCall.data
  /\ fetch.result.tide_data = EntryAtCall.tide_data
  /\ fetch.requests = <<>>
  /\ fetch.tide_calls = 0

\* C29: a call whose key has a fresh entry (age below 86400 s) returns the
\* entry's data and tide_data with cached=True and sends no Stormglass and
\* no NOAA request; a call whose key has no entry, or one of age 86400 s or
\* more, sends the Stormglass request and its result has cached=False.
C29_ServedExactlyWhileFresh ==
  FetchReturned =>
    /\ FreshAtCall => ServedFromCache
    /\ ~FreshAtCall =>
         /\ Len(fetch.requests) = 1
         /\ "cached" \in DOMAIN fetch.result
         /\ fetch.result.cached = FALSE

\* the target_date of the call is a non-empty string not of the form
\* YYYY-MM-DD
FetchDateMalformed ==
  /\ fetch.target_date.kind = "str"
  /\ fetch.target_date.text \notin {"", "2025-01-31"}

\* the Stormglass request of the call was answered with status 200 and a
\* JSON body
FetchedDocument ==
  /\ fetch.response # NoDict
  /\ fetch.response.exc = None
  /\ fetch.response.status_code = 200
  /\ fetch.response.json # None

\* C29, amended: a fresh entry is served as the claim says; otherwise
\* nothing is served from the cache: a malformed target_date ends the call
\* with an error result before any request, any other call sends one
\* Stormglass request, an answer with status 200 and a JSON body gives a
\* result with cached=False, and any other answer gives an error result
\* without the key 'cached'.
C29_ServedOnlyWhileFresh ==
  FetchReturned =>
    /\ FreshAtCall => ServedFromCache
    /\ ~FreshAtCall =>
         /\ ("cached" \in DOMAIN fetch.result) => fetch.result.cached = FALSE
         /\ FetchDateMalformed =>
              /\ fetch.requests = <<>>
              /\ "error" \in DOMAIN fetch.result
              /\ "cached" \notin DOMAIN fetch.result
         /\ ~FetchDateMalformed =>
              /\ Len(fetch.requests) = 1
              /\ FetchedDocument =>
                   /\ "cached" \in DOMAIN fetch.result
                   /\ fetch.result.data = fetch.response.json
                   /\ fetch.tide_calls = 1
              /\ ~FetchedDocument =>
                   /\ "error" \in DOMAIN fetch.result
                   /\ "cached" \notin DOMAIN fetch.result

\* C29 witness: an entry of age 86399 s has been served.
C29_Witness ==
  /\ FetchReturned
  /\ FreshAtCall
  /\ fetch.current_time - EntryAtCall.timestamp = 86399
  /\ ServedFromCache

\* C29 witness: an entry of age 86400 s has not been served; the request
\* was sent and the result has cached=False.
C29_WitnessExpired ==
  /\ FetchReturned
  /\ fetch.cache_key \in DOMAIN fetch.file0.entries
  /\ fetch.current_time - EntryAtCall.timestamp = 86400
  /\ Len(fetch.requests) = 1
  /\ "cached" \in DOMAIN fetch.result
  /\ fetch.result.cached = FALSE

\* C29 witness: no entry and a malformed date: an error without request.
C29_WitnessMalformedDate ==
  /\ FetchReturned
  /\ ~FreshAtCall
  /\ FetchDateMalformed
  /\ fetch.requests = <<>>
  /\ "error" \in DOMAIN fetch.result

\* ============================================================ claim C30

\* the latest call has changed the cache file
FileWritten == fetch.file # fetch.file0

\* the Stormglass request of the call was answered with status 200
Status200 ==
  /\ fetch.response # NoDict
  /\ fetch.response.exc = None
  /\ fetch.response.status_code = 200

\* the call returned because the beach is unknown, the Stormglass request
\* failed or its status was not 200
FetchFailed ==
  /\ fetch.pc = "idle"
  /\ fetch.returned
  /\ \/ fetch.coords = NoCoords
     \/ /\ fetch.response # NoDict
        /\ (fetch.response.exc # None \/ fetch.response.status_code # 200)

\* every entry the file held at the entry of the call, except that of the
\* key of the call, is in the file as it was, and no other key was added
OtherEntriesKept ==
  /\ \A k \in DOMAIN fetch.file0.entries \ {fetch.cache_key} :
       /\ k \in DOMAIN fetch.file.entries
       /\ fetch.file.entries[k] = fetch.file0.entries[k]
  /\ DOMAIN fetch.file.entries \subseteq DOMAIN fetch.file0.entries \cup {fetch.cache_key}

\* C30: the cache file is written only after a Stormglass answer with
\* status 200 and then only in the entry of the requested key; a call that
\* fails on an unknown beach, a failed request or another status leaves the
\* file unchanged and makes no tide call; entries of other keys are never
\* modified or removed.
C30_WritesOnlyRequestedKey ==
  /\ FileWritten =>
       /\ Status200
       /\ fetch.cache_key \in DOMAIN fetch.file.entries
       /\ fetch.file.entries[fetch.cache_key].timestamp = fetch.current_time
  /\ FetchFailed =>
       /\ ~FileWritten
       /\ fetch.tide_calls = 0
  /\ OtherEntriesKept

\* C30 witness: a call has written the entry of its key into a file that
\* held an entry of another key, which is still there.
C30_Witness ==
  /\ FileWritten
  /\ fetch.pc = "idle"
  /\ fetch.cache_key \notin DOMAIN fetch.file0.entries
  /\ \E k \in DOMAIN fetch.file0.entries :
       /\ k # fetch.cache_key
       /\ fetch.file.entries[k] = fetch.file0.entries[k]

\* C30 witness: a call for a key whose entry had expired was answered with
\* another status and left the file, with the expired entry, as it was.
C30_WitnessFailed ==
  /\ FetchFailed
  /\ fetch.coords # NoCoords
  /\ fetch.response.status_code = 402
  /\ fetch.cache_key \in DOMAIN fetch.file0.entries
  /\ fetch.file = fetch.file0

\* C30 witness: a call for an unknown beach returned with the file, which
\* holds entries, as it was.
C30_WitnessUnknownBeach ==
  /\ FetchFailed
  /\ fetch.coords = NoCoords
  /\ fetch.file.exists
  /\ fetch.file = fetch.file0

====
